---- MODULE Spec2Model ----
(***************************************************************************)
(* litmapper: the resource cache (kv/util.py), the job tracker (kv/info.py)*)
(* and the dramatiq pipeline tasks (tasks.py), as a state machine.         *)
(*                                                                         *)
(* The key-value store is Redis: every Redis command (and every MULTI/EXEC *)
(* pipeline) is one atomic step, and workers interleave between commands.  *)
(* An optional value (Python None or a value) is a sequence of length 0 or *)
(* 1: <<>> is None, <<v>> is the value v.                                  *)
(***************************************************************************)
EXTENDS Integers, Sequences, FiniteSets, TLC

\* Bounds of the model
MaxArticles == 1
MaxJobs == 2

Workers == 1..2
ArticleIds == 1..MaxArticles
JobIds == 1..MaxJobs

None == <<>>
Some(v) == <<v>>

(***************************************************************************)
(* Parameter objects (schemas.py) and their hashes                         *)
(***************************************************************************)
FilterSetParams(query, temp_article_ids, limit) ==
    [cls |-> "FilterSetParams", full_text_search_query |-> query,
     temp_article_ids |-> temp_article_ids, limit |-> limit]

ClusteringParams(filter_set) ==
    [cls |-> "ClusteringParams", filter_set |-> filter_set]

ArticleGroupParams(clustering, num_terms) ==
    [cls |-> "ArticleGroupParams", clustering |-> clustering, num_terms |-> num_terms]

\* The parameter objects the tasks of the model are started with
TheFilterSet == FilterSetParams(Some("q"), None, None)
TheClustering == ClusteringParams(TheFilterSet)
TheArticleGroup == ArticleGroupParams(TheClustering, 0)
AllParams == {TheFilterSet, TheClustering, TheArticleGroup}

\* A parameter object of a class that is in no registry: the base class
Unregistered == [cls |-> "HashableBaseModel"]

\* HashableBaseModel.__hash__: the type name followed by every field value
Hash(p) ==
    CASE p.cls = "FilterSetParams" -> <<p.cls, p.full_text_search_query, p.temp_article_ids, p.limit>>
      [] p.cls = "ClusteringParams" -> <<p.cls, p.filter_set>>
      [] p.cls = "ArticleGroupParams" -> <<p.cls, p.clustering, p.num_terms>>
      [] p.cls = "HashableBaseModel" -> <<p.cls>>

RESOURCE_HASH_KEYS ==
    [FilterSetParams |-> "filter_sets",
     ClusteringParams |-> "clusterings",
     ArticleGroupParams |-> "article_groups"]

\* The registry with the result class of a clustering mislinked
RESOURCE_RESULT_CLASSES_Mislinked ==
    [FilterSetParams |-> "FilterSetResult",
     ClusteringParams |-> "FilterSetResult",
     ArticleGroupParams |-> "ArticleGroupResult"]

RESOURCE_RESULT_CLASSES ==
    [FilterSetParams |-> "FilterSetResult",
     ClusteringParams |-> "ClusteringResult",
     ArticleGroupParams |-> "ArticleGroupResult"]

\* get_resource_hash_key that files a class it does not know under filter_sets
get_resource_hash_key_Default(resource_cls) ==
    IF resource_cls \in DOMAIN RESOURCE_HASH_KEYS
    THEN [ok |-> TRUE, val |-> RESOURCE_HASH_KEYS[resource_cls]]
    ELSE [ok |-> TRUE, val |-> "filter_sets"]

\* RESOURCE_HASH_KEYS.get(resource_cls), TypeError when it is None
get_resource_hash_key(resource_cls) ==
    IF resource_cls \in DOMAIN RESOURCE_HASH_KEYS
    THEN [ok |-> TRUE, val |-> RESOURCE_HASH_KEYS[resource_cls]]
    ELSE [ok |-> FALSE, exc |-> "TypeError"]

\* RESOURCE_RESULT_CLASSES.get(resource_cls), TypeError when it is None
get_resource_result_cls(resource_cls) ==
    IF resource_cls \in DOMAIN RESOURCE_RESULT_CLASSES
    THEN [ok |-> TRUE, val |-> RESOURCE_RESULT_CLASSES[resource_cls]]
    ELSE [ok |-> FALSE, exc |-> "TypeError"]

\* The cache slot of a parameter object: (hash key, field of the Redis hash)
Slot(p) == <<get_resource_hash_key(p.cls).val, Hash(p)>>

Slots == {Slot(p) : p \in AllParams}

\* The fields HGET can be asked for: any hash of the model under any hash key
Hashes == {Hash(p) : p \in AllParams \cup {Unregistered}}

AllSlots == {<<RESOURCE_HASH_KEYS[c], h>> : c \in DOMAIN RESOURCE_HASH_KEYS, h \in Hashes}

(***************************************************************************)
(* Result objects (schemas.py) and their JSON form.  A serialized value is *)
(* a sequence of tokens; the in-progress sentinel is the empty sequence.   *)
(***************************************************************************)
FilterSetResult(article_ids) ==
    [cls |-> "FilterSetResult", article_ids |-> article_ids]

ClusteringResult(article_ids, labels, num_clusters) ==
    [cls |-> "ClusteringResult", article_ids |-> article_ids,
     labels |-> labels, num_clusters |-> num_clusters]

ArticleGroup(id, article_ids, top_terms) ==
    [id |-> id, num_articles |-> Len(article_ids),
     article_ids |-> article_ids, top_terms |-> top_terms]

ArticleGroupResult(result) ==
    [cls |-> "ArticleGroupResult", result |-> result]

JsonInts(xs) == [i \in DOMAIN xs |-> ToString(xs[i])]

JsonOptInts(xs) ==
    [i \in DOMAIN xs |-> IF xs[i] = None THEN "null" ELSE ToString(xs[i][1])]

JsonGroup(g) ==
    <<"{", "id", ToString(g.id), "num_articles", ToString(g.num_articles),
      "article_ids", "[">> \o JsonInts(g.article_ids)
    \o <<"]", "top_terms", "[">> \o g.top_terms \o <<"]", "}">>

RECURSIVE JsonGroups(_)
JsonGroups(gs) ==
    IF gs = <<>> THEN <<>> ELSE JsonGroup(Head(gs)) \o JsonGroups(Tail(gs))

\* Json that serializes the article ids of a filter set before they are filled in
Json_Partial(r) ==
    CASE r.cls = "FilterSetResult" ->
           <<"{", "article_ids", "[", "]", "}">>
      [] r.cls = "ClusteringResult" ->
           <<"{", "article_ids", "[">> \o JsonInts(r.article_ids)
           \o <<"]", "labels", "[">> \o JsonOptInts(r.labels)
           \o <<"]", "num_clusters", ToString(r.num_clusters), "}">>
      [] r.cls = "ArticleGroupResult" ->
           <<"{", "result", "[">> \o JsonGroups(r.result) \o <<"]", "}">>

\* BaseModel.json()
Json(r) ==
    CASE r.cls = "FilterSetResult" ->
           <<"{", "article_ids", "[">> \o JsonInts(r.article_ids) \o <<"]", "}">>
      [] r.cls = "ClusteringResult" ->
           <<"{", "article_ids", "[">> \o JsonInts(r.article_ids)
           \o <<"]", "labels", "[">> \o JsonOptInts(r.labels)
           \o <<"]", "num_clusters", ToString(r.num_clusters), "}">>
      [] r.cls = "ArticleGroupResult" ->
           <<"{", "result", "[">> \o JsonGroups(r.result) \o <<"]", "}">>

IntOf(tok) == CHOOSE n \in 0..(MaxArticles + 1) : ToString(n) = tok

\* The index of the first "]" at or after position i
ListEnd(toks, i) ==
    CHOOSE j \in i..Len(toks) :
        toks[j] = "]" /\ \A k \in i..(j - 1) : toks[k] # "]"

\* The tokens of the list whose "[" is at position i
ListAt(toks, i) == SubSeq(toks, i + 1, ListEnd(toks, i + 1) - 1)

ParseInts(toks) == [i \in DOMAIN toks |-> IntOf(toks[i])]

ParseOptInts(toks) ==
    [i \in DOMAIN toks |-> IF toks[i] = "null" THEN None ELSE Some(IntOf(toks[i]))]

\* The groups of the list that continues at position i (a "{" or the closing "]")
RECURSIVE ParseGroups(_, _)
ParseGroups(toks, i) ==
    IF toks[i] = "]" THEN <<>>
    ELSE LET ids == ListAt(toks, i + 6)
             e == i + 7 + Len(ids)
             terms == ListAt(toks, e + 2)
             f == e + 3 + Len(terms)
             g == [id |-> IntOf(toks[i + 2]), num_articles |-> IntOf(toks[i + 4]),
                   article_ids |-> ParseInts(ids), top_terms |-> terms]
         IN <<g>> \o ParseGroups(toks, f + 2)

\* result_cls.parse_raw(val)
parse_raw(result_cls, toks) ==
    CASE result_cls = "FilterSetResult" ->
           FilterSetResult(ParseInts(ListAt(toks, 3)))
      [] result_cls = "ClusteringResult" ->
           LET ids == ListAt(toks, 3)
               l == 3 + Len(ids) + 3
               labels == ListAt(toks, l)
               n == l + Len(labels) + 3
           IN ClusteringResult(ParseInts(ids), ParseOptInts(labels), IntOf(toks[n]))
      [] result_cls = "ArticleGroupResult" ->
           ArticleGroupResult(ParseGroups(toks, 4))

IN_PROGRESS_VAL == <<>>

\* is_in_progress that takes every value present for the sentinel
is_in_progress_Present(resource_val) == resource_val # None

\* resource_val is the optional value HGET returned
is_in_progress(resource_val) ==
    resource_val # None /\ Len(resource_val[1]) = 0

(***************************************************************************)
(* Exceptions: the type and str(e)                                         *)
(***************************************************************************)
Exc(type, msg) == [type |-> type, msg |-> msg]

\* repr(params), abbreviated to the class name
Repr(p) == p.cls

ShutdownExc == Exc("Shutdown", "")

ClusteringFailed ==
    Exc("ValueError", "Clustering Failed. Likely due to too few articles. Try again with additional articles.")

(***************************************************************************)
(* The creation functions.  The relational store is read-only here: d maps *)
(* a full-text query to the article ids it matches.  The numeric libraries *)
(* (UMAP, HDBSCAN) are external: what they return is an input of the model.*)
(***************************************************************************)
Min(a, b) == IF a <= b THEN a ELSE b

filter_articles(d, full_text_search_query) == d[full_text_search_query]

_make_filter_set(d, params) ==
    LET article_ids == filter_articles(d, params.full_text_search_query)
        limited == IF params.limit # None
                   THEN SubSeq(article_ids, 1, Min(params.limit[1], Len(article_ids)))
                   ELSE article_ids
    IN FilterSetResult(limited)

_make_blank_clustering_result == ClusteringResult(<<>>, <<>>, 0)

\* The article ids _make_clustering clusters, given the filter set it found
ClusteredIds(params, filtered_article_ids) ==
    IF params.filter_set.temp_article_ids # None
          /\ Len(params.filter_set.temp_article_ids[1]) > 0
    THEN IF params.filter_set.full_text_search_query = None
         THEN params.filter_set.temp_article_ids[1]
         ELSE filtered_article_ids \o params.filter_set.temp_article_ids[1]
    ELSE filtered_article_ids

SeqMax(xs) ==
    CHOOSE m \in {xs[i] : i \in DOMAIN xs} : \A i \in DOMAIN xs : xs[i] <= m

\* The labellings HDBSCAN may return for n points (-1 is an outlier)
RawLabels(n) == {[i \in 1..n |-> 0]}

\* What _make_clustering does once it has found the filter set: the results
\* it may return (ok) and the exceptions it may raise
_make_clustering(params, filter_set_result) ==
    LET ids == ClusteredIds(params, filter_set_result.article_ids)
    IN IF Len(ids) = 0
       THEN {[ok |-> TRUE, result |-> _make_blank_clustering_result]}
       ELSE {[ok |-> TRUE,
              result |-> ClusteringResult(
                  ids,
                  [i \in DOMAIN raw |-> IF raw[i] = -1 THEN None ELSE Some(raw[i])],
                  SeqMax(raw) + 1)] : raw \in RawLabels(Len(ids))}
            \cup {[ok |-> FALSE, exc |-> ClusteringFailed]}

_make_blank_article_group_result ==
    ArticleGroupResult(<<ArticleGroup(0, <<>>, <<>>)>>)

\* The distinct non-null labels, in the order of their first appearance
RECURSIVE GroupKeys(_, _)
GroupKeys(labels, seen) ==
    IF labels = <<>> THEN <<>>
    ELSE IF Head(labels) = None \/ Head(labels)[1] \in seen
         THEN GroupKeys(Tail(labels), seen)
         ELSE <<Head(labels)[1]>> \o GroupKeys(Tail(labels), seen \cup {Head(labels)[1]})

RECURSIVE MembersOf(_, _, _)
MembersOf(article_ids, labels, cluster) ==
    IF article_ids = <<>> THEN <<>>
    ELSE (IF Head(labels) = Some(cluster) THEN <<Head(article_ids)>> ELSE <<>>)
         \o MembersOf(Tail(article_ids), Tail(labels), cluster)

\* The loop over the candidates sorted by distance: a term is appended
\* before num_terms is looked at (i counts from 0)
RECURSIVE TopTerms(_, _, _)
TopTerms(sorted_terms, num_terms, i) ==
    IF i >= Len(sorted_terms) THEN <<>>
    ELSE <<sorted_terms[i + 1]>>
         \o (IF i >= num_terms - 1 THEN <<>> ELSE TopTerms(sorted_terms, num_terms, i + 1))

\* The terms of a cluster: the candidates are the terms more than one of its
\* articles carries; ranking is the order of the terms by the distance of
\* their embedding to the centroid, which the embedding module decides
ClusterTopTerms(num_terms, members, summary_terms, ranking) ==
    LET count(t) == Cardinality({i \in DOMAIN members : t \in summary_terms[members[i]]})
        candidates == {t \in UNION {summary_terms[members[i]] : i \in DOMAIN members} :
                          count(t) > 1}
    IN IF candidates # {}
       THEN TopTerms(SelectSeq(ranking, LAMBDA t : t \in candidates), num_terms, 0)
       ELSE <<>>

\* _make_article_groups once it has found the clustering: summary_terms are
\* the terms each article carries in the database
_make_article_groups_terms(params, clustering_result, summary_terms, ranking) ==
    IF Len(clustering_result.article_ids) = 0
    THEN _make_blank_article_group_result
    ELSE LET keys == GroupKeys(clustering_result.labels, {})
             members(k) == MembersOf(clustering_result.article_ids,
                                     clustering_result.labels, keys[k])
         IN ArticleGroupResult(
                [k \in DOMAIN keys |->
                    ArticleGroup(keys[k], members(k),
                                 ClusterTopTerms(params.num_terms, members(k),
                                                 summary_terms, ranking))])

\* _make_article_groups in the pipeline, whose articles carry no terms
_make_article_groups(params, clustering_result) ==
    _make_article_groups_terms(
        params, clustering_result,
        [a \in {clustering_result.article_ids[i] : i \in DOMAIN clustering_result.article_ids}
            |-> {}],
        <<>>)

\* The parameters of the resource this one depends on
Dependency(params) ==
    CASE params.cls = "ClusteringParams" -> params.filter_set
      [] params.cls = "ArticleGroupParams" -> params.clustering

(***************************************************************************)
(* State                                                                   *)
(***************************************************************************)
VARIABLES
    db,       \* the relational store: query -> matching article ids (never written)
    kv,       \* the resource hashes of Redis: slot -> optional value
    jobs,     \* the "jobs" hash of Redis: job id -> optional Job
    api,      \* start_task between save_job and task.send: the optional message
    queue,    \* the dramatiq queue: the messages sent and not yet taken
    wk,       \* worker -> the task it runs and where it is in it
    forced,   \* history: the slots some task was started with force=True on
    call      \* the last direct call of the cache API and its outcome, if any

vars == <<db, kv, jobs, api, queue, wk, forced, call>>

Queries == {Some("q")}

\* The article ids a query matches, as the database returns them
Matches == {[i \in 1..n |-> i] : n \in 0..MaxArticles}

Actors == {"make_filter_set", "make_clustering", "make_article_group"}

ActorParams ==
    [make_filter_set |-> TheFilterSet,
     make_clustering |-> TheClustering,
     make_article_group |-> TheArticleGroup]

ResultPath ==
    [FilterSetParams |-> "/literature/filter_set/",
     ClusteringParams |-> "/literature/clustering/",
     ArticleGroupParams |-> "/literature/article_group/"]

\* f"/literature/<kind>/{hash(params)}"
ResultUrl(params) == <<ResultPath[params.cls], Hash(params)>>

\* Stages with the dependent made before what it depends on
Stages_DependentFirst(actor, params) ==
    CASE actor = "make_filter_set" ->
           <<[detail |-> "Creating filter set", params |-> params]>>
      [] actor = "make_clustering" ->
           <<[detail |-> "Clustering", params |-> params],
             [detail |-> "Creating filter set", params |-> params.filter_set]>>
      [] actor = "make_article_group" ->
           <<[detail |-> "Generating article group summaries", params |-> params],
             [detail |-> "Clustering", params |-> params.clustering],
             [detail |-> "Creating filter set", params |-> params.clustering.filter_set]>>

\* The make_resource calls of an actor, in order, each after the
\* status_detail the actor saves before it
Stages(actor, params) ==
    CASE actor = "make_filter_set" ->
           <<[detail |-> "Creating filter set", params |-> params]>>
      [] actor = "make_clustering" ->
           <<[detail |-> "Creating filter set", params |-> params.filter_set],
             [detail |-> "Clustering", params |-> params]>>
      [] actor = "make_article_group" ->
           <<[detail |-> "Creating filter set", params |-> params.clustering.filter_set],
             [detail |-> "Clustering", params |-> params.clustering],
             [detail |-> "Generating article group summaries", params |-> params]>>

\* The local state of a worker.  A field that is dead where the worker is
\* (the stage once the worker has left its last scope) is reset.  raised is
\* the exception reserve_resource raised and make_resource caught; exc is the
\* exception propagating; cleaned is the slot reserve_resource deleted for it.
Idle ==
    [pc |-> "idle", actor |-> "", params |-> None, force |-> FALSE, job |-> None,
     stage |-> 0, prev_val |-> None, result |-> None, exc |-> None, raised |-> None,
     cleaned |-> None]

\* The parameters of the make_resource call worker w is in
CurParams(w) == Stages(wk[w].actor, wk[w].params[1])[wk[w].stage].params

CurSlot(w) == Slot(CurParams(w))

\* Inside the try of reserve_resource: the body of a granted scope
ScopePcs == {"create", "sleep", "write", "written"}

\* Inside worker_context, outside any reservation scope
TaskPcs == {"stage", "reserve", "entering", "finishing"}

InScope(w, s) == wk[w].pc \in ScopePcs /\ CurSlot(w) = s

(***************************************************************************)
(* The job tracker (kv/info.py)                                            *)
(***************************************************************************)
\* make_uuid: an id no job has
FreeJobIds == {j \in JobIds : jobs[j] = None}

\* Job.json(): the fields in declaration order (JobBase, then job_id); an
\* Optional[str] is null or a string
JobJson(job) ==
    <<"{", "status", job.status,
      "status_detail", IF job.status_detail = None THEN "null" ELSE "str",
                       IF job.status_detail = None THEN "" ELSE job.status_detail[1],
      "result_url", job.result_url,
      "job_id", ToString(job.job_id), "}">>

JobIdOf(tok) == CHOOSE j \in JobIds : ToString(j) = tok

\* The field values read from the stored JSON, before validation
JobFields(toks) ==
    [job_id |-> JobIdOf(toks[10]),
     status |-> toks[3],
     status_detail |-> IF toks[5] = "null" THEN None ELSE Some(toks[6]),
     result_url |-> toks[8]]

\* JobStatus: the values the status field accepts
JobStatus == {"failed", "in progress", "success"}

\* JobBase.successful_job_has_url: TRUE when the validator raises
successful_job_has_url(values) ==
    values.status = "success" /\ values.result_url = None

\* Job.parse_raw(result_str)
Job_parse_raw(toks) ==
    LET values == JobFields(toks)
    IN IF values.status \notin JobStatus \/ successful_job_has_url(values)
       THEN [ok |-> FALSE, exc |-> "ValidationError"]
       ELSE [ok |-> TRUE, job |-> values]

\* save_job with HSETNX: a record is never overwritten
save_job_Insert(job) ==
    IF jobs[job.job_id] = None
    THEN [jobs EXCEPT ![job.job_id] = Some(JobJson(job))]
    ELSE jobs

\* save_job of a Job: HSET jobs job_id job.json()
save_job(job) == [jobs EXCEPT ![job.job_id] = Some(JobJson(job))]

\* find_job: HGET jobs job_id, parsed
find_job(job_id) ==
    IF jobs[job_id] = None
    THEN [ok |-> FALSE, exc |-> "ResourceDoesNotExist"]
    ELSE Job_parse_raw(jobs[job_id][1])

Init ==
    /\ db \in [Queries -> Matches]
    /\ kv = [s \in AllSlots |-> None]
    /\ jobs = [j \in JobIds |-> None]
    /\ api = None
    /\ queue = {}
    /\ wk = [w \in Workers |-> Idle]
    /\ forced = {}
    /\ call = None

(***************************************************************************)
(* start_task (tasks.py), called by the POST routes                        *)
(***************************************************************************)
\* StartTaskSave that hands the job out without storing it
StartTaskSave_NoSave(actor, force) ==
    /\ api = None
    /\ FreeJobIds # {}
    /\ LET job_id == CHOOSE j \in FreeJobIds : \A k \in FreeJobIds : j <= k
           job == [job_id |-> job_id, status |-> "in progress",
                   status_detail |-> Some("Starting"), result_url |-> None]
       IN api' = Some([actor |-> actor, job |-> job, params |-> ActorParams[actor],
                       force |-> force])
    /\ UNCHANGED <<call, db, kv, jobs, queue, wk, forced>>

\* save_job(kv, job_create): the job gets its id and is stored
StartTaskSave(actor, force) ==
    /\ api = None
    /\ FreeJobIds # {}
    /\ LET job_id == CHOOSE j \in FreeJobIds : \A k \in FreeJobIds : j <= k
           job == [job_id |-> job_id, status |-> "in progress",
                   status_detail |-> Some("Starting"), result_url |-> None]
           params == ActorParams[actor]
       IN /\ jobs' = save_job(job)
          /\ api' = Some([actor |-> actor, job |-> job, params |-> params,
                          force |-> force])
          /\ forced' = IF force
                       THEN forced \cup {Slot(Stages(actor, params)[i].params) :
                                             i \in DOMAIN Stages(actor, params)}
                       ELSE forced
    /\ UNCHANGED <<call, db, kv, queue, wk>>

\* task.send(job, *args, **kwargs)
StartTaskSend ==
    /\ api # None
    /\ queue' = queue \cup {api[1]}
    /\ api' = None
    /\ UNCHANGED <<call, db, kv, jobs, wk, forced>>

(***************************************************************************)
(* A worker running an actor (tasks.py) through make_resource and          *)
(* reserve_resource (kv/util.py)                                           *)
(***************************************************************************)
\* An idle worker takes a message and enters worker_context.  The workers
\* are interchangeable: the message goes to the first idle one.
Dequeue(w, m) ==
    /\ wk[w].pc = "idle"
    /\ \A v \in Workers : wk[v].pc = "idle" => w <= v
    /\ m \in queue
    /\ queue' = queue \ {m}
    /\ wk' = [wk EXCEPT ![w] =
                [Idle EXCEPT !.pc = "stage", !.actor = m.actor,
                             !.params = Some(m.params), !.force = m.force,
                             !.job = Some(m.job), !.stage = 1]]
    /\ UNCHANGED <<call, db, kv, jobs, api, forced>>

\* The stage the worker goes to next: past the scope it has just completed
NextStage(w) == IF wk[w].pc = "written" THEN wk[w].stage + 1 ELSE wk[w].stage

NumStages(w) == Len(Stages(wk[w].actor, wk[w].params[1]))

\* job.status_detail = <stage>; save_job(kv, job), leaving the previous
\* reservation scope if the worker was in one
SaveStage(w) ==
    /\ wk[w].pc \in {"stage", "written"}
    /\ NextStage(w) <= NumStages(w)
    /\ LET st == Stages(wk[w].actor, wk[w].params[1])[NextStage(w)]
           job == [wk[w].job[1] EXCEPT !.status_detail = Some(st.detail)]
       IN /\ jobs' = save_job(job)
          /\ wk' = [wk EXCEPT ![w].pc = "reserve", ![w].stage = NextStage(w),
                              ![w].job = Some(job), ![w].raised = None,
                              ![w].prev_val = None, ![w].result = None]
    /\ UNCHANGED <<call, db, kv, api, queue, forced>>

\* Succeed without the assignment of result_url
Succeed_NoUrl(w) ==
    /\ wk[w].pc \in {"stage", "written"}
    /\ NextStage(w) > NumStages(w)
    /\ LET job == [wk[w].job[1] EXCEPT !.status = "success",
                                       !.status_detail = None]
       IN /\ jobs' = save_job(job)
          /\ wk' = [wk EXCEPT ![w] = [Idle EXCEPT !.pc = "finishing", !.job = Some(job)]]
    /\ UNCHANGED <<call, db, kv, api, queue, forced>>

\* The end of the actor: status = SUCCESS, result_url set, save_job(kv, job)
Succeed(w) ==
    /\ wk[w].pc \in {"stage", "written"}
    /\ NextStage(w) > NumStages(w)
    /\ LET job == [wk[w].job[1] EXCEPT !.status = "success",
                                       !.status_detail = None,
                                       !.result_url = Some(ResultUrl(wk[w].params[1]))]
       IN /\ jobs' = save_job(job)
          /\ wk' = [wk EXCEPT ![w] = [Idle EXCEPT !.pc = "finishing", !.job = Some(job)]]
    /\ UNCHANGED <<call, db, kv, api, queue, forced>>

\* The actor returns through worker_context without an exception
Return(w) ==
    /\ wk[w].pc = "finishing"
    /\ wk' = [wk EXCEPT ![w].pc = "done"]
    /\ UNCHANGED <<call, db, kv, jobs, api, queue, forced>>

\* Reserve with the HSETNX left out of the pipeline
Reserve_NoSetnx(w) ==
    /\ wk[w].pc = "reserve"
    /\ kv' = kv
    /\ wk' = [wk EXCEPT ![w].pc = "entering", ![w].prev_val = kv[CurSlot(w)]]
    /\ UNCHANGED <<call, db, jobs, api, queue, forced>>

\* Reserve with HSET in the place of HSETNX
Reserve_Hset(w) ==
    /\ wk[w].pc = "reserve"
    /\ kv' = [kv EXCEPT ![CurSlot(w)] = Some(IN_PROGRESS_VAL)]
    /\ wk' = [wk EXCEPT ![w].pc = "entering", ![w].prev_val = kv[CurSlot(w)]]
    /\ UNCHANGED <<call, db, jobs, api, queue, forced>>

\* reserve_resource: the pipeline HGET + HSETNX, one transaction
Reserve(w) ==
    /\ wk[w].pc = "reserve"
    /\ LET prev_val == kv[CurSlot(w)]
       IN /\ kv' = IF prev_val = None
                   THEN [kv EXCEPT ![CurSlot(w)] = Some(IN_PROGRESS_VAL)]
                   ELSE kv
          /\ wk' = [wk EXCEPT ![w].pc = "entering", ![w].prev_val = prev_val]
    /\ UNCHANGED <<call, db, jobs, api, queue, forced>>

\* Enter with make_resource catching neither exception of reserve_resource
Enter_Propagates(w) ==
    /\ wk[w].pc = "entering"
    /\ IF wk[w].prev_val = None \/ wk[w].force
       THEN /\ kv' = IF wk[w].force
                     THEN [kv EXCEPT ![CurSlot(w)] = Some(IN_PROGRESS_VAL)]
                     ELSE kv
            /\ wk' = [wk EXCEPT ![w].pc = "create"]
       ELSE /\ kv' = kv
            /\ wk' = [wk EXCEPT ![w] =
                        [Idle EXCEPT !.pc = "failing", !.job = wk[w].job,
                                     !.exc = Some(Exc(IF is_in_progress(wk[w].prev_val)
                                                      THEN "ResourceCreationInProgress"
                                                      ELSE "ResourceExists",
                                                      Repr(CurParams(w))))]]
    /\ UNCHANGED <<call, db, jobs, api, queue, forced>>

\* Enter without the HSET of the sentinel under force
Enter_NoHset(w) ==
    /\ wk[w].pc = "entering"
    /\ kv' = kv
    /\ IF wk[w].prev_val = None \/ wk[w].force
       THEN wk' = [wk EXCEPT ![w].pc = "create"]
       ELSE wk' = [wk EXCEPT ![w].pc = "stage", ![w].stage = wk[w].stage + 1,
                             ![w].raised =
                                 IF is_in_progress(wk[w].prev_val)
                                 THEN Some("ResourceCreationInProgress")
                                 ELSE Some("ResourceExists")]
    /\ UNCHANGED <<call, db, jobs, api, queue, forced>>

\* reserve_resource after the pipeline: the scope is granted (with force,
\* after an HSET of the sentinel), or ResourceCreationInProgress or
\* ResourceExists is raised, which make_resource catches before it returns
Enter(w) ==
    /\ wk[w].pc = "entering"
    /\ IF wk[w].prev_val = None \/ wk[w].force
       THEN /\ kv' = IF wk[w].force
                     THEN [kv EXCEPT ![CurSlot(w)] = Some(IN_PROGRESS_VAL)]
                     ELSE kv
            /\ wk' = [wk EXCEPT ![w].pc = "create"]
       ELSE /\ kv' = kv
            /\ wk' = [wk EXCEPT ![w].pc = "stage", ![w].stage = wk[w].stage + 1,
                                ![w].prev_val = None,
                                ![w].raised =
                                    IF is_in_progress(wk[w].prev_val)
                                    THEN Some("ResourceCreationInProgress")
                                    ELSE Some("ResourceExists")]
    /\ UNCHANGED <<call, db, jobs, api, queue, forced>>

\* find_resource_hash: the registry lookups, then one HGET, classified
find_resource_hash(resource_cls, params_hash) ==
    LET hash_key == get_resource_hash_key(resource_cls)
        result_cls == get_resource_result_cls(resource_cls)
    IN IF ~hash_key.ok THEN [ok |-> FALSE, exc |-> hash_key.exc]
       ELSE IF ~result_cls.ok THEN [ok |-> FALSE, exc |-> result_cls.exc]
       ELSE LET val == kv[<<hash_key.val, params_hash>>]
            IN IF val = None
               THEN [ok |-> FALSE, exc |-> "ResourceDoesNotExist"]
               ELSE IF is_in_progress(val)
                    THEN [ok |-> FALSE, exc |-> "ResourceCreationInProgress"]
                    ELSE [ok |-> TRUE, result |-> parse_raw(result_cls.val, val[1])]

\* find_resource: the exceptions are raised again with repr(params)
find_resource(params) == find_resource_hash(params.cls, Hash(params))

(***************************************************************************)
(* The GET routes (routers/literature.py, routers/info.py): the response   *)
(* is the status code and the optional body                                *)
(***************************************************************************)
_get_filter_set(params_hash) ==
    LET r == find_resource_hash("FilterSetParams", params_hash)
    IN IF r.ok THEN [status |-> 200, body |-> Some(r.result)]
       ELSE IF r.exc = "ResourceDoesNotExist" THEN [status |-> 404, body |-> None]
       ELSE [status |-> 409, body |-> None]

get_filter_set(params_hash) == _get_filter_set(params_hash)

\* get_clustering answering an entry in progress as it answers an absent one
get_clustering_NoConflict(params_hash) ==
    LET r == find_resource_hash("ClusteringParams", params_hash)
    IN IF r.ok THEN [status |-> 200, body |-> Some(r.result)]
       ELSE [status |-> 404, body |-> None]

get_clustering(params_hash) ==
    LET r == find_resource_hash("ClusteringParams", params_hash)
    IN IF r.ok THEN [status |-> 200, body |-> Some(r.result)]
       ELSE IF r.exc = "ResourceDoesNotExist" THEN [status |-> 404, body |-> None]
       ELSE [status |-> 409, body |-> None]

get_article_group(params_hash) ==
    LET r == find_resource_hash("ArticleGroupParams", params_hash)
    IN IF r.ok THEN [status |-> 200, body |-> Some(r.result)]
       ELSE IF r.exc = "ResourceDoesNotExist" THEN [status |-> 404, body |-> None]
       ELSE [status |-> 409, body |-> None]

\* get_job: 200 with the job, 404 for ResourceDoesNotExist; any other
\* exception of find_job is the 500 of the framework
get_job(job_id) ==
    LET r == find_job(job_id)
    IN IF r.ok THEN [status |-> 200, body |-> Some(r.job)]
       ELSE IF r.exc = "ResourceDoesNotExist" THEN [status |-> 404, body |-> None]
       ELSE [status |-> 500, body |-> None]

\* Create with a find_resource that deletes the sentinel it reads
Create_PollDeletes(w) ==
    /\ wk[w].pc = "create"
    /\ CurParams(w).cls # "FilterSetParams"
    /\ LET dep == find_resource(Dependency(CurParams(w)))
       IN /\ ~dep.ok
          /\ kv' = [kv EXCEPT ![Slot(Dependency(CurParams(w)))] = None]
          /\ wk' = [wk EXCEPT ![w].pc = "sleep"]
    /\ UNCHANGED <<call, db, jobs, api, queue, forced>>

\* Create with a polling loop that does not catch ResourceCreationInProgress
Create_NoCatch(w) ==
    /\ wk[w].pc = "create"
    /\ LET params == CurParams(w)
       IN IF params.cls = "FilterSetParams"
          THEN wk' = [wk EXCEPT ![w].pc = "write",
                                ![w].result = Some(_make_filter_set(db, params))]
          ELSE LET dep == find_resource(Dependency(params))
               IN IF dep.ok
                  THEN IF params.cls = "ClusteringParams"
                       THEN \E o \in _make_clustering(params, dep.result) :
                              wk' = IF o.ok
                                    THEN [wk EXCEPT ![w].pc = "write",
                                                    ![w].result = Some(o.result)]
                                    ELSE [wk EXCEPT ![w].pc = "cleanup",
                                                    ![w].exc = Some(o.exc)]
                       ELSE wk' = [wk EXCEPT ![w].pc = "write",
                                             ![w].result =
                                                 Some(_make_article_groups(params, dep.result))]
                  ELSE wk' = [wk EXCEPT ![w].pc = "cleanup",
                                        ![w].exc = Some(Exc(dep.exc,
                                                            Repr(Dependency(params))))]
    /\ UNCHANGED <<call, db, kv, jobs, api, queue, forced>>

\* Create with a polling loop that waits for an absent dependency as it
\* waits for one in progress
Create_WaitsAbsent(w) ==
    /\ wk[w].pc = "create"
    /\ LET params == CurParams(w)
       IN IF params.cls = "FilterSetParams"
          THEN wk' = [wk EXCEPT ![w].pc = "write",
                                ![w].result = Some(_make_filter_set(db, params))]
          ELSE LET dep == find_resource(Dependency(params))
               IN IF dep.ok
                  THEN IF params.cls = "ClusteringParams"
                       THEN \E o \in _make_clustering(params, dep.result) :
                              wk' = IF o.ok
                                    THEN [wk EXCEPT ![w].pc = "write",
                                                    ![w].result = Some(o.result)]
                                    ELSE [wk EXCEPT ![w].pc = "cleanup",
                                                    ![w].exc = Some(o.exc)]
                       ELSE wk' = [wk EXCEPT ![w].pc = "write",
                                             ![w].result =
                                                 Some(_make_article_groups(params, dep.result))]
                  ELSE wk' = [wk EXCEPT ![w].pc = "sleep"]
    /\ UNCHANGED <<call, db, kv, jobs, api, queue, forced>>

\* The creation function, called inside the scope.  _make_filter_set queries
\* the database; the others first poll their dependency with find_resource.
Create(w) ==
    /\ wk[w].pc = "create"
    /\ LET params == CurParams(w)
       IN IF params.cls = "FilterSetParams"
          THEN wk' = [wk EXCEPT ![w].pc = "write",
                                ![w].result = Some(_make_filter_set(db, params))]
          ELSE LET dep == find_resource(Dependency(params))
               IN IF dep.ok
                  THEN IF params.cls = "ClusteringParams"
                       THEN \E o \in _make_clustering(params, dep.result) :
                              wk' = IF o.ok
                                    THEN [wk EXCEPT ![w].pc = "write",
                                                    ![w].result = Some(o.result)]
                                    ELSE [wk EXCEPT ![w].pc = "cleanup",
                                                    ![w].exc = Some(o.exc)]
                       ELSE wk' = [wk EXCEPT ![w].pc = "write",
                                             ![w].result =
                                                 Some(_make_article_groups(params, dep.result))]
                  ELSE IF dep.exc = "ResourceCreationInProgress"
                       THEN wk' = [wk EXCEPT ![w].pc = "sleep"]
                       ELSE wk' = [wk EXCEPT ![w].pc = "cleanup",
                                             ![w].exc = Some(Exc(dep.exc,
                                                                 Repr(Dependency(params))))]
    /\ UNCHANGED <<call, db, kv, jobs, api, queue, forced>>

\* time.sleep(1) of the polling loop
Sleep(w) ==
    /\ wk[w].pc = "sleep"
    /\ wk' = [wk EXCEPT ![w].pc = "create"]
    /\ UNCHANGED <<call, db, kv, jobs, api, queue, forced>>

\* make_resource: kv.hset(hash_key, key=param_hash, value=result.json())
Write(w) ==
    /\ wk[w].pc = "write"
    /\ kv' = [kv EXCEPT ![CurSlot(w)] = Some(Json(wk[w].result[1]))]
    /\ wk' = [wk EXCEPT ![w].pc = "written"]
    /\ UNCHANGED <<call, db, jobs, api, queue, forced>>

\* Shutdown with reserve_resource catching Exception only
Shutdown_Uncaught(w) ==
    /\ wk[w].pc \in ScopePcs \cup TaskPcs
    /\ wk' = [wk EXCEPT ![w] = [Idle EXCEPT !.pc = "failing", !.job = wk[w].job,
                                            !.exc = Some(ShutdownExc)]]
    /\ UNCHANGED <<call, db, kv, jobs, api, queue, forced>>

\* dramatiq raises Shutdown in the thread of a running actor, wherever it is
Shutdown(w) ==
    /\ wk[w].pc \in ScopePcs \cup TaskPcs
    /\ wk' = IF wk[w].pc \in ScopePcs
             THEN [wk EXCEPT ![w].pc = "cleanup", ![w].exc = Some(ShutdownExc)]
             ELSE [wk EXCEPT ![w] = [Idle EXCEPT !.pc = "failing", !.job = wk[w].job,
                                                 !.exc = Some(ShutdownExc)]]
    /\ UNCHANGED <<call, db, kv, jobs, api, queue, forced>>

\* reserve_resource, except (Exception, Shutdown): kv.hdel(...); raise
Cleanup(w) ==
    /\ wk[w].pc = "cleanup"
    /\ kv' = [kv EXCEPT ![CurSlot(w)] = None]
    /\ wk' = [wk EXCEPT ![w] = [Idle EXCEPT !.pc = "failing", !.job = wk[w].job,
                                             !.exc = wk[w].exc,
                                             !.cleaned = Some(CurSlot(w))]]
    /\ UNCHANGED <<call, db, jobs, api, queue, forced>>

\* FailJob that re-raises without saving the job
FailJob_NoSave(w) ==
    /\ wk[w].pc = "failing"
    /\ wk' = [wk EXCEPT ![w].pc = "raised", ![w].cleaned = None]
    /\ UNCHANGED <<call, db, kv, jobs, api, queue, forced>>

\* worker_context, except (Exception, Shutdown): the job is saved as failed
\* and the exception leaves the actor
FailJob(w) ==
    /\ wk[w].pc = "failing"
    /\ LET job == [wk[w].job[1] EXCEPT !.status = "failed",
                                       !.status_detail = Some(wk[w].exc[1].msg)]
       IN /\ jobs' = save_job(job)
          /\ wk' = [wk EXCEPT ![w].pc = "raised", ![w].job = Some(job),
                              ![w].cleaned = None]
    /\ UNCHANGED <<call, db, kv, api, queue, forced>>

\* The worker is free for the next message
Ack(w) ==
    /\ wk[w].pc \in {"done", "raised"}
    /\ wk' = [wk EXCEPT ![w] = Idle]
    /\ UNCHANGED <<call, db, kv, jobs, api, queue, forced>>

Next ==
    \/ \E actor \in Actors, force \in BOOLEAN : StartTaskSave(actor, force)
    \/ StartTaskSend
    \/ \E w \in Workers, m \in queue : Dequeue(w, m)
    \/ \E w \in Workers : SaveStage(w)
    \/ \E w \in Workers : Succeed(w)
    \/ \E w \in Workers : Return(w)
    \/ \E w \in Workers : Reserve(w)
    \/ \E w \in Workers : Enter(w)
    \/ \E w \in Workers : Create(w)
    \/ \E w \in Workers : Sleep(w)
    \/ \E w \in Workers : Write(w)
    \/ \E w \in Workers : Shutdown(w)
    \/ \E w \in Workers : Cleanup(w)
    \/ \E w \in Workers : FailJob(w)
    \/ \E w \in Workers : Ack(w)

Spec == Init /\ [][Next]_vars

(***************************************************************************)
(* The cache API called directly by a single caller, one call at a time,   *)
(* as test/kv/test_kv_util.py calls it.  A call is one step; cmds are the  *)
(* Redis commands it issued, in order.                                     *)
(***************************************************************************)
RESOURCE_CREATION_FUNCS ==
    [FilterSetParams |-> "_make_filter_set",
     ClusteringParams |-> "_make_clustering",
     ArticleGroupParams |-> "_make_article_groups"]

\* RESOURCE_CREATION_FUNCS.get(resource_cls), TypeError when it is None
get_resource_creation_func(resource_cls) ==
    IF resource_cls \in DOMAIN RESOURCE_CREATION_FUNCS
    THEN [ok |-> TRUE, val |-> RESOURCE_CREATION_FUNCS[resource_cls]]
    ELSE [ok |-> FALSE, exc |-> "TypeError"]

\* The parameter objects a caller may pass
CallParams == AllParams \cup {Unregistered}

\* reserve_resource that plants its marker under the filter set hash key
\* whatever the class of params
reserve_resource_OneKey(params, force) ==
    LET hash_key == get_resource_hash_key(params.cls)
    IN IF ~hash_key.ok
       THEN [granted |-> FALSE, raised |-> Some(hash_key.exc), kv |-> kv, cmds |-> <<>>,
             prev_val |-> None]
       ELSE LET slot == <<RESOURCE_HASH_KEYS["FilterSetParams"], Hash(params)>>
                prev_val == kv[slot]
                piped == IF prev_val = None
                         THEN [kv EXCEPT ![slot] = Some(IN_PROGRESS_VAL)]
                         ELSE kv
            IN IF prev_val = None \/ force
               THEN [granted |-> TRUE, raised |-> None,
                     kv |-> IF force
                            THEN [piped EXCEPT ![slot] = Some(IN_PROGRESS_VAL)]
                            ELSE piped,
                     cmds |-> IF force THEN <<"HGET", "HSETNX", "HSET">>
                                       ELSE <<"HGET", "HSETNX">>,
                     prev_val |-> prev_val]
               ELSE [granted |-> FALSE,
                     raised |-> Some(IF is_in_progress(prev_val)
                                     THEN "ResourceCreationInProgress"
                                     ELSE "ResourceExists"),
                     kv |-> piped, cmds |-> <<"HGET", "HSETNX">>,
                     prev_val |-> prev_val]

\* reserve_resource up to its yield: the store it leaves, whether the body
\* runs, the exception it raises instead
reserve_resource(params, force) ==
    LET hash_key == get_resource_hash_key(params.cls)
    IN IF ~hash_key.ok
       THEN [granted |-> FALSE, raised |-> Some(hash_key.exc), kv |-> kv, cmds |-> <<>>,
             prev_val |-> None]
       ELSE LET slot == <<hash_key.val, Hash(params)>>
                prev_val == kv[slot]
                piped == IF prev_val = None
                         THEN [kv EXCEPT ![slot] = Some(IN_PROGRESS_VAL)]
                         ELSE kv
            IN IF prev_val = None \/ force
               THEN [granted |-> TRUE, raised |-> None,
                     kv |-> IF force
                            THEN [piped EXCEPT ![slot] = Some(IN_PROGRESS_VAL)]
                            ELSE piped,
                     cmds |-> IF force THEN <<"HGET", "HSETNX", "HSET">>
                                       ELSE <<"HGET", "HSETNX">>,
                     prev_val |-> prev_val]
               ELSE [granted |-> FALSE,
                     raised |-> Some(IF is_in_progress(prev_val)
                                     THEN "ResourceCreationInProgress"
                                     ELSE "ResourceExists"),
                     kv |-> piped, cmds |-> <<"HGET", "HSETNX">>,
                     prev_val |-> prev_val]

\* The outcomes of the creation function of params in the present store:
\* none while the dependency is in progress (the function keeps polling)
CreationOutcomes(params) ==
    IF params.cls = "FilterSetParams"
    THEN {[ok |-> TRUE, result |-> _make_filter_set(db, params)]}
    ELSE LET dep == find_resource(Dependency(params))
         IN IF dep.ok
            THEN IF params.cls = "ClusteringParams"
                 THEN {IF o.ok THEN o ELSE [ok |-> FALSE, exc |-> o.exc.type] :
                           o \in _make_clustering(params, dep.result)}
                 ELSE {[ok |-> TRUE, result |-> _make_article_groups(params, dep.result)]}
            ELSE IF dep.exc = "ResourceCreationInProgress"
                 THEN {}
                 ELSE {[ok |-> FALSE, exc |-> dep.exc]}

\* The handler restoring the value the pipeline had read
reserve_resource_Restores(params, e) == [e.kv EXCEPT ![Slot(params)] = e.prev_val]

\* reserve_resource, except (Exception, Shutdown): kv.hdel(hash_key,
\* params_hash) on the store e.kv the reservation left
reserve_resource_except(params, e) == [e.kv EXCEPT ![Slot(params)] = None]

\* find_resource(kv, params)
CallFindResource(params) ==
    /\ LET r == find_resource(params)
       IN call' = Some([fn |-> "find_resource", cls |-> params.cls, force |-> FALSE,
                        raised |-> IF r.ok THEN None ELSE Some(r.exc),
                        cmds |-> IF ~r.ok /\ r.exc = "TypeError" THEN <<>> ELSE <<"HGET">>])
    /\ UNCHANGED <<db, kv, jobs, api, queue, wk, forced>>

\* with reserve_resource(kv, params, force): the body passes, or raises
CallReserveResource(params, force, raises) ==
    /\ LET e == reserve_resource(params, force)
       IN IF e.granted /\ raises
          THEN /\ kv' = reserve_resource_except(params, e)
               /\ call' = Some([fn |-> "reserve_resource", cls |-> params.cls,
                                force |-> force, raised |-> Some("Exception"),
                                cmds |-> e.cmds \o <<"HDEL">>])
          ELSE /\ kv' = e.kv
               /\ call' = Some([fn |-> "reserve_resource", cls |-> params.cls,
                                force |-> force, raised |-> e.raised, cmds |-> e.cmds])
    /\ UNCHANGED <<db, jobs, api, queue, wk, forced>>

\* make_resource(kv, db, params, force); prev_val is what the HGET of the
\* reservation pipeline returned
CallMakeResource(params, force) ==
    /\ LET result_cls == get_resource_result_cls(params.cls)
           e == reserve_resource(params, force)
           func == get_resource_creation_func(params.cls)
       IN IF ~result_cls.ok
          THEN /\ kv' = kv
               /\ call' = Some([fn |-> "make_resource", cls |-> params.cls,
                                force |-> force, raised |-> Some(result_cls.exc),
                                cmds |-> <<>>, prev_val |-> None])
          ELSE IF ~e.granted
          THEN /\ kv' = e.kv
               /\ call' = Some([fn |-> "make_resource", cls |-> params.cls,
                                force |-> force,
                                raised |-> IF e.raised = Some("TypeError")
                                           THEN e.raised ELSE None,
                                cmds |-> e.cmds, prev_val |-> e.prev_val])
          ELSE IF ~func.ok
          THEN /\ kv' = reserve_resource_except(params, e)
               /\ call' = Some([fn |-> "make_resource", cls |-> params.cls,
                                force |-> force, raised |-> Some(func.exc),
                                cmds |-> e.cmds \o <<"HDEL">>,
                                prev_val |-> e.prev_val])
          ELSE \E o \in CreationOutcomes(params) :
                 IF o.ok
                 THEN /\ kv' = [e.kv EXCEPT ![Slot(params)] = Some(Json(o.result))]
                      /\ call' = Some([fn |-> "make_resource", cls |-> params.cls,
                                       force |-> force, raised |-> None,
                                       cmds |-> e.cmds \o <<"HSET">>,
                                       prev_val |-> e.prev_val])
                 ELSE /\ kv' = reserve_resource_except(params, e)
                      /\ call' = Some([fn |-> "make_resource", cls |-> params.cls,
                                       force |-> force, raised |-> Some(o.exc),
                                       cmds |-> e.cmds \o <<"HDEL">>,
                                       prev_val |-> e.prev_val])
    /\ UNCHANGED <<db, jobs, api, queue, wk, forced>>

NextCalls ==
    \/ \E params \in CallParams : CallFindResource(params)
    \/ \E params \in CallParams, force \in BOOLEAN, raises \in BOOLEAN :
          CallReserveResource(params, force, raises)
    \/ \E params \in CallParams, force \in BOOLEAN : CallMakeResource(params, force)

SpecCalls == Init /\ [][NextCalls]_vars

(***************************************************************************)
(* HashableBaseModel.__hash__ (schemas.py) evaluated in two processes that *)
(* share PYTHONHASHSEED: the builtin hash as an integer computation.  An   *)
(* interpreter is its seed and its process (which fixes object addresses). *)
(***************************************************************************)
\* The parameter objects hashed: every combination of the field values below
HashParams ==
    LET HashFilterSets ==
            {FilterSetParams(q, t, l) :
                q \in {None, Some("q"), Some("r")}, t \in {None, Some(<<1>>)},
                l \in {None, Some(1)}}
        HashClusterings == {ClusteringParams(fs) : fs \in HashFilterSets}
        HashArticleGroups ==
            {ArticleGroupParams(c, n) :
                c \in {ClusteringParams(FilterSetParams(q, None, None)) :
                          q \in {None, Some("q")}},
                n \in 0..1}
    IN HashFilterSets \cup HashClusterings \cup HashArticleGroups

\* hash(str): the bytes of the string mixed with the seed of the interpreter
StrHash(str, env) ==
    LET code == CASE str = "q" -> 11
                  [] str = "r" -> 12
                  [] str = "FilterSetParams" -> 21
                  [] str = "ClusteringParams" -> 22
                  [] str = "ArticleGroupParams" -> 23
                  [] OTHER -> 29
    IN (code * (env.seed + 2) + env.seed) % 8191

\* hash(type): the address of the type object in the process
TypeHash(cls, env) ==
    LET addr == CASE cls = "FilterSetParams" -> 1
                  [] cls = "ClusteringParams" -> 2
                  [] cls = "ArticleGroupParams" -> 3
                  [] OTHER -> 4
    IN (addr + 64 * env.proc) % 8191

\* hash(int)
IntHash(n) == n % 8191

\* hash(tuple): the hashes of the items combined in order
RECURSIVE TupleHash(_)
TupleHash(hs) ==
    IF hs = <<>> THEN 1
    ELSE (TupleHash(SubSeq(hs, 1, Len(hs) - 1)) * 31 + hs[Len(hs)]) % 8191

\* hash(None): taken to be the same number in every interpreter
NoneHash(env) == IntHash(6)

\* hash of an Optional[str], an Optional[int], an Optional[Tuple[int, ...]]
OptStrHash(v, env) == IF v = None THEN NoneHash(env) ELSE StrHash(v[1], env)

OptIntHash(v, env) == IF v = None THEN NoneHash(env) ELSE IntHash(v[1])

OptIntsHash(v, env) ==
    IF v = None THEN NoneHash(env)
    ELSE TupleHash([i \in DOMAIN v[1] |-> IntHash(v[1][i])])

\* __hash__ over the type object in the place of its name
RECURSIVE HashableBaseModel_hash_TypeObject(_, _)
HashableBaseModel_hash_TypeObject(p, env) ==
    CASE p.cls = "FilterSetParams" ->
           TupleHash(<<TypeHash(p.cls, env), OptStrHash(p.full_text_search_query, env),
                       OptIntsHash(p.temp_article_ids, env), OptIntHash(p.limit, env)>>)
      [] p.cls = "ClusteringParams" ->
           TupleHash(<<TypeHash(p.cls, env),
                       HashableBaseModel_hash_TypeObject(p.filter_set, env)>>)
      [] p.cls = "ArticleGroupParams" ->
           TupleHash(<<TypeHash(p.cls, env),
                       HashableBaseModel_hash_TypeObject(p.clustering, env),
                       IntHash(p.num_terms)>>)
      [] p.cls = "HashableBaseModel" -> TupleHash(<<TypeHash(p.cls, env)>>)

\* HashableBaseModel.__hash__:
\* hash((type(self).__name__,) + tuple(self.__dict__.values()))
RECURSIVE HashableBaseModel_hash(_, _)
HashableBaseModel_hash(p, env) ==
    CASE p.cls = "FilterSetParams" ->
           TupleHash(<<StrHash(p.cls, env), OptStrHash(p.full_text_search_query, env),
                       OptIntsHash(p.temp_article_ids, env), OptIntHash(p.limit, env)>>)
      [] p.cls = "ClusteringParams" ->
           TupleHash(<<StrHash(p.cls, env), HashableBaseModel_hash(p.filter_set, env)>>)
      [] p.cls = "ArticleGroupParams" ->
           TupleHash(<<StrHash(p.cls, env), HashableBaseModel_hash(p.clustering, env),
                       IntHash(p.num_terms)>>)
      [] p.cls = "HashableBaseModel" -> TupleHash(<<StrHash(p.cls, env)>>)

\* The slot a process addresses for params: (hash key, str(hash(params)))
HashSlot(p, env) ==
    <<get_resource_hash_key(p.cls).val, ToString(HashableBaseModel_hash(p, env))>>

\* The two objects to hash and the seed both processes are started with
InitHash ==
    /\ db \in [Queries -> Matches]
    /\ kv = [s \in AllSlots |-> None]
    /\ jobs = [j \in JobIds |-> None]
    /\ api = None
    /\ queue = {}
    /\ wk = [w \in Workers |-> Idle]
    /\ forced = {}
    /\ call \in {Some([fn |-> "hash", p1 |-> p1, p2 |-> p2, seed |-> seed,
                        hashes |-> None]) :
                     p1 \in HashParams, p2 \in HashParams, seed \in 0..1}

\* p1 is hashed in the API process and p2 in a worker process, both started
\* with PYTHONHASHSEED = seed
CallHash ==
    /\ call[1].hashes = None
    /\ LET c == call[1]
           api_env == [seed |-> c.seed, proc |-> 1]
           worker_env == [seed |-> c.seed, proc |-> 2]
       IN call' = Some([c EXCEPT !.hashes =
                          Some([h1 |-> HashableBaseModel_hash(c.p1, api_env),
                                h2 |-> HashableBaseModel_hash(c.p2, worker_env),
                                slot1 |-> HashSlot(c.p1, api_env),
                                slot2 |-> HashSlot(c.p2, worker_env)])])
    /\ UNCHANGED <<db, kv, jobs, api, queue, wk, forced>>

NextHash == CallHash

SpecHash == InitHash /\ [][NextHash]_vars

(***************************************************************************)
(* PydanticJSONEncoder (tasks.py): the encoder of the dramatiq messages.   *)
(* A Python value is a record tagged with its kind; an instance of a       *)
(* pydantic model is a record with the field cls.  A JSON document is a    *)
(* tree of JSON values, tagged with the JSON type.                         *)
(***************************************************************************)
PyNone == [kind |-> "none"]
PyBool(b) == [kind |-> "bool", b |-> b]
PyInt(n) == [kind |-> "int", n |-> n]
PyStr(s) == [kind |-> "str", s |-> s]
PyEnum(enum, value) == [kind |-> "enum", enum |-> enum, value |-> value]
PyList(items) == [kind |-> "list", items |-> items]
PyTuple(items) == [kind |-> "tuple", items |-> items]
\* A dict is its (key, value) pairs in insertion order
PyDict(pairs) == [kind |-> "dict", pairs |-> pairs]

\* isinstance(arg, BaseModel)
IsModel(v) == "cls" \in DOMAIN v

\* schemas.Job as a model instance; job_id is a str
Job(job_id, status, status_detail, result_url) ==
    [cls |-> "Job", status |-> status, status_detail |-> status_detail,
     result_url |-> result_url, job_id |-> job_id]

\* The value of an Optional[str] and of an Optional[int] field
OptStr(v) == IF v = None THEN PyNone ELSE PyStr(v[1])

OptInt(v) == IF v = None THEN PyNone ELSE PyInt(v[1])

\* BaseModel.dict(): the fields in declaration order, embedded models as
\* dicts, a tuple kept a tuple and an enum member kept a member
RECURSIVE BaseModel_dict(_)
BaseModel_dict(m) ==
    CASE m.cls = "FilterSetParams" ->
           PyDict(<< <<"full_text_search_query", OptStr(m.full_text_search_query)>>,
                     <<"temp_article_ids",
                       IF m.temp_article_ids = None THEN PyNone
                       ELSE PyTuple([i \in DOMAIN m.temp_article_ids[1] |->
                                        PyInt(m.temp_article_ids[1][i])])>>,
                     <<"limit", OptInt(m.limit)>> >>)
      [] m.cls = "ClusteringParams" ->
           PyDict(<< <<"filter_set", BaseModel_dict(m.filter_set)>> >>)
      [] m.cls = "ArticleGroupParams" ->
           PyDict(<< <<"clustering", BaseModel_dict(m.clustering)>>,
                     <<"num_terms", PyInt(m.num_terms)>> >>)
      [] m.cls = "Job" ->
           PyDict(<< <<"status", PyEnum("JobStatus", m.status)>>,
                     <<"status_detail", OptStr(m.status_detail)>>,
                     <<"result_url", OptStr(m.result_url)>>,
                     <<"job_id", PyStr(m.job_id)>> >>)

\* json.dumps(v, default=pydantic_encoder): a tuple is written as an array,
\* an enum member that is a str as its value, a model (through the default)
\* as the object of its dict()
RECURSIVE json_dumps(_)
json_dumps(v) ==
    IF IsModel(v) THEN json_dumps(BaseModel_dict(v))
    ELSE CASE v.kind = "none" -> [j |-> "null"]
           [] v.kind = "bool" -> [j |-> IF v.b THEN "true" ELSE "false"]
           [] v.kind = "int" -> [j |-> "number", n |-> v.n]
           [] v.kind = "str" -> [j |-> "string", s |-> v.s]
           [] v.kind = "enum" -> [j |-> "string", s |-> v.value]
           [] v.kind \in {"list", "tuple"} ->
                [j |-> "array",
                 items |-> [i \in DOMAIN v.items |-> json_dumps(v.items[i])]]
           [] v.kind = "dict" ->
                [j |-> "object",
                 pairs |-> [i \in DOMAIN v.pairs |->
                               <<v.pairs[i][1], json_dumps(v.pairs[i][2])>>]]

\* json.loads: an object is read as a dict and an array as a list
RECURSIVE json_loads(_)
json_loads(x) ==
    CASE x.j = "null" -> PyNone
      [] x.j = "true" -> PyBool(TRUE)
      [] x.j = "false" -> PyBool(FALSE)
      [] x.j = "number" -> PyInt(x.n)
      [] x.j = "string" -> PyStr(x.s)
      [] x.j = "array" -> PyList([i \in DOMAIN x.items |-> json_loads(x.items[i])])
      [] x.j = "object" ->
           PyDict([i \in DOMAIN x.pairs |-> <<x.pairs[i][1], json_loads(x.pairs[i][2])>>])

\* obj[name] of a dict
DictGet(obj, name) ==
    obj.pairs[CHOOSE i \in DOMAIN obj.pairs : obj.pairs[i][1] = name][2]

\* pydantic validation of a value against Optional[str], Optional[int] and
\* Optional[Tuple[int, ...]] (a list is accepted and becomes a tuple)
ValidateOptStr(v) == IF v.kind = "none" THEN None ELSE Some(v.s)

ValidateOptInt(v) == IF v.kind = "none" THEN None ELSE Some(v.n)

ValidateOptIntTuple(v) ==
    IF v.kind = "none" THEN None
    ELSE Some([i \in DOMAIN v.items |-> v.items[i].n])

\* getattr(schemas, class_name).parse_obj(obj): every field validated
\* against its declared type, an embedded dict parsed as its model, the
\* value of a status as the JobStatus member with that value
RECURSIVE parse_obj(_, _)
parse_obj(class_name, obj) ==
    CASE class_name = "FilterSetParams" ->
           FilterSetParams(ValidateOptStr(DictGet(obj, "full_text_search_query")),
                           ValidateOptIntTuple(DictGet(obj, "temp_article_ids")),
                           ValidateOptInt(DictGet(obj, "limit")))
      [] class_name = "ClusteringParams" ->
           ClusteringParams(parse_obj("FilterSetParams", DictGet(obj, "filter_set")))
      [] class_name = "ArticleGroupParams" ->
           ArticleGroupParams(parse_obj("ClusteringParams", DictGet(obj, "clustering")),
                              DictGet(obj, "num_terms").n)
      [] class_name = "Job" ->
           Job(DictGet(obj, "job_id").s,
               CHOOSE s \in JobStatus : s = DictGet(obj, "status").s,
               ValidateOptStr(DictGet(obj, "status_detail")),
               ValidateOptStr(DictGet(obj, "result_url")))

\* A message as Message.asdict() gives it: args is a tuple, kwargs a dict,
\* options a dict whose keys pydantic_args, pydantic_kwargs and pipe_target
\* may be absent (None)
Message(actor_name, args, kwargs, pipe_target) ==
    [actor_name |-> actor_name, args |-> args, kwargs |-> kwargs,
     options |-> [pydantic_args |-> None, pydantic_kwargs |-> None,
                  pipe_target |-> pipe_target]]

\* The (i, class name) of the models among args[i..], i counted from 0
RECURSIVE PydanticArgs(_, _)
PydanticArgs(args, i) ==
    IF i > Len(args) THEN <<>>
    ELSE (IF IsModel(args[i])
          THEN <<PyTuple(<<PyInt(i - 1), PyStr(args[i].cls)>>)>>
          ELSE <<>>)
         \o PydanticArgs(args, i + 1)

\* The (key, class name) of the models among kwargs[i..]
RECURSIVE PydanticKwargs(_, _)
PydanticKwargs(kwargs, i) ==
    IF i > Len(kwargs) THEN <<>>
    ELSE (IF IsModel(kwargs[i][2])
          THEN <<PyTuple(<<PyStr(kwargs[i][1]), PyStr(kwargs[i][2].cls)>>)>>
          ELSE <<>>)
         \o PydanticKwargs(kwargs, i + 1)

\* _serialize_pydantic: the models among args and kwargs become their
\* dict(), and options notes where they were and of which class
_serialize_pydantic(data) ==
    [data EXCEPT
       !.args = [i \in DOMAIN data.args |->
                    IF IsModel(data.args[i]) THEN BaseModel_dict(data.args[i])
                    ELSE data.args[i]],
       !.kwargs = [i \in DOMAIN data.kwargs |->
                      <<data.kwargs[i][1],
                        IF IsModel(data.kwargs[i][2])
                        THEN BaseModel_dict(data.kwargs[i][2])
                        ELSE data.kwargs[i][2]>>],
       !.options.pydantic_args = Some(PyList(PydanticArgs(data.args, 1))),
       !.options.pydantic_kwargs = Some(PyList(PydanticKwargs(data.kwargs, 1)))]

\* The loop of encode: _serialize_pydantic down the chain of pipe targets
RECURSIVE SerializeChain(_)
SerializeChain(data) ==
    LET cur_dict == _serialize_pydantic(data)
    IN IF cur_dict.options.pipe_target # None
       THEN [cur_dict EXCEPT !.options.pipe_target =
                                 Some(SerializeChain(cur_dict.options.pipe_target[1]))]
       ELSE cur_dict

\* json.dumps of the message dict, key by key
RECURSIVE DumpMessage(_)
DumpMessage(data) ==
    [actor_name |-> json_dumps(PyStr(data.actor_name)),
     args |-> json_dumps(PyTuple(data.args)),
     kwargs |-> json_dumps(PyDict(data.kwargs)),
     options |->
       [pydantic_args |-> json_dumps(data.options.pydantic_args[1]),
        pydantic_kwargs |-> json_dumps(data.options.pydantic_kwargs[1]),
        pipe_target |-> IF data.options.pipe_target = None THEN None
                        ELSE Some(DumpMessage(data.options.pipe_target[1]))]]

\* PydanticJSONEncoder.encode
encode(data) == DumpMessage(SerializeChain(data))

\* json.loads of the document, key by key: args comes back a list
RECURSIVE LoadMessage(_)
LoadMessage(doc) ==
    [actor_name |-> json_loads(doc.actor_name).s,
     args |-> json_loads(doc.args).items,
     kwargs |-> json_loads(doc.kwargs).pairs,
     options |->
       [pydantic_args |-> Some(json_loads(doc.options.pydantic_args)),
        pydantic_kwargs |-> Some(json_loads(doc.options.pydantic_kwargs)),
        pipe_target |-> IF doc.options.pipe_target = None THEN None
                        ELSE Some(LoadMessage(doc.options.pipe_target[1]))]]

\* The class name options notes for position i of args (from 0), if any
NotedArg(data, i) ==
    LET noted == data.options.pydantic_args[1].items
    IN {noted[k].items[2].s : k \in {n \in DOMAIN noted : noted[n].items[1].n = i}}

\* The class name options notes for a key of kwargs, if any
NotedKwarg(data, key) ==
    LET noted == data.options.pydantic_kwargs[1].items
    IN {noted[k].items[2].s : k \in {n \in DOMAIN noted : noted[n].items[1].s = key}}

\* _deserialize_pydantic: every arg and kwarg options notes is parsed as the
\* class noted with it; args is made a tuple again
_deserialize_pydantic(data) ==
    [data EXCEPT
       !.args = [i \in DOMAIN data.args |->
                    IF NotedArg(data, i - 1) # {}
                    THEN parse_obj(CHOOSE c \in NotedArg(data, i - 1) : TRUE, data.args[i])
                    ELSE data.args[i]],
       !.kwargs = [i \in DOMAIN data.kwargs |->
                      <<data.kwargs[i][1],
                        IF NotedKwarg(data, data.kwargs[i][1]) # {}
                        THEN parse_obj(CHOOSE c \in NotedKwarg(data, data.kwargs[i][1]) : TRUE,
                                       data.kwargs[i][2])
                        ELSE data.kwargs[i][2]>>]]

\* The loop of decode: _deserialize_pydantic down the chain of pipe targets
RECURSIVE DeserializeChain(_)
DeserializeChain(data) ==
    LET cur_dict == _deserialize_pydantic(data)
    IN IF cur_dict.options.pipe_target # None
       THEN [cur_dict EXCEPT !.options.pipe_target =
                                 Some(DeserializeChain(cur_dict.options.pipe_target[1]))]
       ELSE cur_dict

\* decode that deserializes the message and not its pipe targets
decode_TopOnly(doc) == _deserialize_pydantic(LoadMessage(doc))

\* PydanticJSONEncoder.decode
decode(doc) == DeserializeChain(LoadMessage(doc))

\* The longest chain of pipe targets of a message of the model
MaxPipe == 2

\* The model instances sent in messages
CodecJobs ==
    {Job("j1", "in progress", Some("Starting"), None),
     Job("j2", "success", None, Some("/literature/filter_set/1"))}

\* The messages that are the last of their chain: a job and parameters, or
\* arguments that are no models, and with them a keyword force or params
CodecLast ==
    LET CodecParams == {TheFilterSet, FilterSetParams(None, Some(<<1, 1>>), Some(1)),
                        TheClustering, TheArticleGroup}
        CodecPlain == {PyBool(TRUE), PyInt(1), PyStr("x"), PyNone, PyList(<<PyInt(1)>>)}
        CodecArgs ==
            {<<job, p>> : job \in CodecJobs, p \in CodecParams}
            \cup {<<x, Job("j1", "failed", Some("x"), None)>> : x \in CodecPlain}
            \cup {<<>>, <<PyInt(1), PyStr("x")>>}
        CodecKwargs ==
            {<<>>, << <<"force", PyBool(TRUE)>> >>,
             << <<"force", PyBool(FALSE)>>, <<"params", TheClustering>> >>}
    IN {Message("make_filter_set", args, kwargs, None) :
           args \in CodecArgs, kwargs \in CodecKwargs}

\* The messages piped into the next one
CodecPiped(target) ==
    {Message("make_clustering", <<job, TheClustering>>, kwargs, Some(target)) :
        job \in CodecJobs,
        kwargs \in {<<>>, << <<"force", PyBool(TRUE)>> >>,
                    << <<"force", PyBool(FALSE)>>, <<"params", TheClustering>> >>}}

RECURSIVE CodecChains(_)
CodecChains(n) ==
    IF n = 0 THEN CodecLast
    ELSE UNION {CodecPiped(target) : target \in CodecChains(n - 1)}

CodecMessages == UNION {CodecChains(n) : n \in 0..MaxPipe}

\* The message to send, before the broker encodes it
InitCodec ==
    /\ db = [q \in Queries |-> <<>>]
    /\ kv = [s \in AllSlots |-> None]
    /\ jobs = [j \in JobIds |-> None]
    /\ api = None
    /\ queue = {}
    /\ wk = [w \in Workers |-> Idle]
    /\ forced = {}
    /\ call \in {Some([fn |-> "codec", message |-> m, doc |-> None, decoded |-> None]) :
                     m \in CodecMessages}

\* The broker encodes the message when it is enqueued
CallEncode ==
    /\ call[1].doc = None
    /\ call' = Some([call[1] EXCEPT !.doc = Some(encode(call[1].message))])
    /\ UNCHANGED <<db, kv, jobs, api, queue, wk, forced>>

\* The worker decodes the document it has taken from the queue
CallDecode ==
    /\ call[1].doc # None
    /\ call[1].decoded = None
    /\ call' = Some([call[1] EXCEPT !.decoded = Some(decode(call[1].doc[1]))])
    /\ UNCHANGED <<db, kv, jobs, api, queue, wk, forced>>

NextCodec == CallEncode \/ CallDecode

SpecCodec == InitCodec /\ [][NextCodec]_vars

(***************************************************************************)
(* The creation functions with every field of their results (kv/util.py,   *)
(* schemas.py), called once on given inputs.  The pipeline above keeps of  *)
(* a clustering result its article_ids, labels and num_clusters.  UMAP,    *)
(* HDBSCAN and the metric functions are external: ext holds what they      *)
(* return to one call, or which of them raises.  A float is an integer     *)
(* here; only the shape of the arrays matters.                             *)
(***************************************************************************)
\* The most article ids of a filter set result given to a creation function
MaxPoints == 2

PlotlyScatter(x, y) == [x |-> x, y |-> y]

ValidationError == [ok |-> FALSE, exc |-> Exc("ValidationError", "")]

\* ClusteringOverallMetrics as the creation function calls it: the keyword
\* silhouette_coefficient names no field of the schema and is ignored, and
\* the field silhoutte_coefficient keeps its default
ClusteringOverallMetrics(dbcv, silhouette_coefficient, davies_bouldin_index, dunn_index) ==
    [dbcv |-> dbcv, silhoutte_coefficient |-> None,
     davies_bouldin_index |-> davies_bouldin_index, dunn_index |-> dunn_index]

\* ClusteringLabelInfo without list_lengths_match, taking an array for a list
ClusteringLabelInfo_Unchecked(n_per_cluster, cluster_center_coords, cluster_validity_indices) ==
    [ok |-> TRUE,
     val |-> [n_per_cluster |-> n_per_cluster,
              cluster_validity_indices |-> cluster_validity_indices.items,
              cluster_center_coords |-> cluster_center_coords,
              plotly_data |->
                  PlotlyScatter(
                      [i \in DOMAIN cluster_center_coords |-> cluster_center_coords[i][1]],
                      [i \in DOMAIN cluster_center_coords |-> cluster_center_coords[i][2]])]]

\* ClusteringLabelInfo with its validators list_lengths_match and to_plotly.
\* cluster_validity_indices is a list or a numpy array; an array is no valid
\* List[float] and counts as no indices.
ClusteringLabelInfo(n_per_cluster, cluster_center_coords, cluster_validity_indices) ==
    LET num_indices == IF cluster_validity_indices.kind = "list"
                       THEN Len(cluster_validity_indices.items) ELSE 0
    IN IF cluster_validity_indices.kind # "list"
          \/ ~(Len(n_per_cluster) = num_indices /\ num_indices = Len(cluster_center_coords))
       THEN ValidationError
       ELSE [ok |-> TRUE,
             val |-> [n_per_cluster |-> n_per_cluster,
                      cluster_validity_indices |-> cluster_validity_indices.items,
                      cluster_center_coords |-> cluster_center_coords,
                      plotly_data |->
                          PlotlyScatter(
                              [i \in DOMAIN cluster_center_coords |-> cluster_center_coords[i][1]],
                              [i \in DOMAIN cluster_center_coords |-> cluster_center_coords[i][2]])]]

\* The positions of the points that have a cluster, in order
RECURSIVE PointsWithCluster(_, _)
PointsWithCluster(labels, i) ==
    IF i > Len(labels) THEN <<>>
    ELSE (IF labels[i] # None THEN <<i>> ELSE <<>>) \o PointsWithCluster(labels, i + 1)

\* schemas.ClusteringResult(...) with its validators: list_lengths_match on
\* coords, then to_plotly, whose zip(*points_with_cluster) cannot be unpacked
\* when no point has a cluster
ClusteringResultFull(article_ids, labels, coords, num_clusters, metrics, label_info) ==
    IF ~(Len(article_ids) = Len(labels) /\ Len(labels) = Len(coords))
    THEN ValidationError
    ELSE IF Len(coords) # 0 /\ PointsWithCluster(labels, 1) = <<>>
    THEN ValidationError
    ELSE LET pts == PointsWithCluster(labels, 1)
         IN [ok |-> TRUE,
             result |-> [cls |-> "ClusteringResult", article_ids |-> article_ids,
                         labels |-> labels, coords |-> coords,
                         num_clusters |-> num_clusters, metrics |-> metrics,
                         label_info |-> label_info,
                         plotly_data |-> PlotlyScatter([k \in DOMAIN pts |-> coords[pts[k]][1]],
                                                       [k \in DOMAIN pts |-> coords[pts[k]][2]])]]

\* _make_blank_clustering_result with every field
BlankClusteringResult ==
    ClusteringResultFull(<<>>, <<>>, <<>>, 0,
                         ClusteringOverallMetrics(None, None, None, None),
                         ClusteringLabelInfo(<<>>, <<>>, PyList(<<>>)).val)

\* The members of a set of integers in ascending order
RECURSIVE Sorted(_)
Sorted(S) ==
    IF S = {} THEN <<>>
    ELSE LET m == CHOOSE x \in S : \A y \in S : x <= y
         IN <<m>> \o Sorted(S \ {m})

\* num_clusters as the number of distinct labels, the outlier label included
NumClusters_Unique(raw_labels) == Cardinality({raw_labels[i] : i \in DOMAIN raw_labels})

\* num_clusters = raw_labels.max() + 1
NumClusters(raw_labels) == SeqMax(raw_labels) + 1

\* _make_clustering from the query of the embeddings on: the rows of the
\* articles that have embeddings, UMAP, HDBSCAN, the metrics, the result
ClusterArticles(numeric, filtered_article_ids, ext) ==
    LET article_ids == SelectSeq(filtered_article_ids, LAMBDA a : a \in ext.embedded)
        n == Len(article_ids)
        umap_data == [i \in 1..n |-> <<article_ids[i], 0>>]
        raw_labels == [i \in 1..n |-> ext.raw_labels[i]]
        unique == Sorted({raw_labels[i] : i \in 1..n})
        num_clusters == NumClusters(raw_labels)
        labels == [i \in 1..n |-> IF raw_labels[i] = -1 THEN None ELSE Some(raw_labels[i])]
        skipped == numeric.hdbscan_min_cluster_size <= 2 \/ numeric.hdbscan_min_samples <= 2
        outliers == \E i \in 1..n : raw_labels[i] = -1
        cluster_validity_indices ==
            IF skipped THEN [kind |-> "ndarray", items |-> <<>>]
            ELSE PyList((IF outliers THEN <<0>> ELSE <<>>) \o [c \in 1..num_clusters |-> 0])
        n_per_cluster ==
            [k \in DOMAIN unique |-> Cardinality({i \in 1..n : raw_labels[i] = unique[k]})]
        cluster_center_coords == [k \in DOMAIN unique |-> <<unique[k], 0>>]
        label_info ==
            ClusteringLabelInfo(n_per_cluster, cluster_center_coords, cluster_validity_indices)
    IN IF n = 0 THEN [ok |-> FALSE, exc |-> Exc("ValueError", "not enough values to unpack")]
       ELSE IF ext.raises = "UMAP" THEN [ok |-> FALSE, exc |-> Exc("Exception", "")]
       ELSE IF ext.raises = "HDBSCAN" THEN [ok |-> FALSE, exc |-> ClusteringFailed]
       ELSE IF ext.raises = "validity_index" /\ ~skipped
       THEN [ok |-> FALSE, exc |-> Exc("ValueError", "")]
       ELSE IF ext.raises = "scores" THEN [ok |-> FALSE, exc |-> Exc("ValueError", "")]
       ELSE IF ~label_info.ok THEN label_info
       ELSE ClusteringResultFull(
                article_ids, labels, umap_data, num_clusters,
                ClusteringOverallMetrics(IF skipped THEN None ELSE Some(0),
                                         Some(0), Some(0), Some(0)),
                label_info.val)

\* _make_clustering that clusters whatever it is given
_make_clustering_NoBlank(params, numeric, filter_set_result, ext) ==
    ClusterArticles(numeric, ClusteredIds(params, filter_set_result.article_ids), ext)

\* _make_clustering once it has found the filter set, with every field of
\* the result: numeric are the UMAP and HDBSCAN fields of params
_make_clustering_full(params, numeric, filter_set_result, ext) ==
    IF Len(ClusteredIds(params, filter_set_result.article_ids)) = 0
    THEN BlankClusteringResult
    ELSE ClusterArticles(numeric, ClusteredIds(params, filter_set_result.article_ids), ext)

\* The inputs of a call of _make_clustering: the parameters, the filter set
\* found, and what the database and the libraries return
ClusteringCalls ==
    {[fn |-> "_make_clustering", params |-> ClusteringParams(FilterSetParams(q, t, None)),
      numeric |-> [hdbscan_min_cluster_size |-> size, hdbscan_min_samples |-> 3],
      found |-> FilterSetResult([i \in 1..n |-> i]),
      ext |-> [embedded |-> embedded, raw_labels |-> raw, raises |-> raises],
      out |-> None] :
        q \in {None, Some("q")},
        t \in {None, Some(<<>>), Some(<<MaxPoints + 1>>)},
        size \in 2..3,
        n \in 0..MaxPoints,
        embedded \in {1..(MaxPoints + 1), 2..(MaxPoints + 1), {}},
        raw \in [1..(MaxPoints + 1) -> -1..1],
        raises \in {"", "UMAP", "HDBSCAN", "validity_index", "scores"}}

\* The terms the articles carry
Terms == {"a", "b"}

\* The inputs of a call of _make_article_groups: the parameters, the
\* clustering found (some article of which has a cluster), the terms of its
\* articles and their ranking
ArticleGroupCalls ==
    {[fn |-> "_make_article_groups",
      params |-> ArticleGroupParams(TheClustering, num_terms),
      found |-> ClusteringResult(
                    [i \in 1..n |-> i], [i \in 1..n |-> labels[i]],
                    IF n = 0 THEN 0
                    ELSE NumClusters([i \in 1..n |-> IF labels[i] = None THEN -1
                                                     ELSE labels[i][1]])),
      summary_terms |-> [i \in 1..n |-> summary_terms[i]],
      ranking |-> ranking,
      out |-> None] :
        num_terms \in 0..2,
        n \in 0..(MaxPoints + 1),
        labels \in {l \in [1..(MaxPoints + 1) -> {None, Some(0), Some(1)}] : l[1] # None},
        summary_terms \in [1..(MaxPoints + 1) -> {{}, {"a"}, Terms}],
        ranking \in {<<"a", "b">>, <<"b", "a">>}}

\* The inputs of a call of _make_filter_set: the parameters and what the
\* database holds, as the ids filter_articles returns for each query (every
\* article of the corpus for no query, the matching ones for "q"); the
\* temporary articles (id MaxPoints + 1) are not of the corpus
FilterSetCalls ==
    {[fn |-> "_make_filter_set", params |-> FilterSetParams(q, t, l),
      d |-> [query \in {None, Some("q")} |->
                IF query = None THEN [i \in 1..nm[1] |-> i] ELSE [i \in 1..nm[2] |-> i]],
      out |-> None] :
        q \in {None, Some("q")},
        t \in {None, Some(<<>>), Some(<<MaxPoints + 1>>)},
        l \in {None} \cup {Some(k) : k \in 0..MaxPoints},
        nm \in {p \in (0..MaxPoints) \X (0..MaxPoints) : p[2] <= p[1]}}

InitCreate ==
    /\ db = [q \in Queries |-> <<>>]
    /\ kv = [s \in AllSlots |-> None]
    /\ jobs = [j \in JobIds |-> None]
    /\ api = None
    /\ queue = {}
    /\ wk = [w \in Workers |-> Idle]
    /\ forced = {}
    /\ call \in {Some(c) : c \in ClusteringCalls \cup ArticleGroupCalls \cup FilterSetCalls}

\* _make_clustering returns or raises
CallMakeClustering ==
    /\ call[1].fn = "_make_clustering"
    /\ call[1].out = None
    /\ LET c == call[1]
       IN call' = Some([c EXCEPT !.out =
                          Some(_make_clustering_full(c.params, c.numeric, c.found, c.ext))])
    /\ UNCHANGED <<db, kv, jobs, api, queue, wk, forced>>

\* _make_article_groups returns
CallMakeArticleGroups ==
    /\ call[1].fn = "_make_article_groups"
    /\ call[1].out = None
    /\ LET c == call[1]
       IN call' = Some([c EXCEPT !.out =
                          Some(_make_article_groups_terms(c.params, c.found,
                                                          c.summary_terms, c.ranking))])
    /\ UNCHANGED <<db, kv, jobs, api, queue, wk, forced>>

\* _make_filter_set returns
CallMakeFilterSet ==
    /\ call[1].fn = "_make_filter_set"
    /\ call[1].out = None
    /\ LET c == call[1]
       IN call' = Some([c EXCEPT !.out = Some(_make_filter_set(c.d, c.params))])
    /\ UNCHANGED <<db, kv, jobs, api, queue, wk, forced>>

NextCreate == CallMakeClustering \/ CallMakeArticleGroups \/ CallMakeFilterSet

SpecCreate == InitCreate /\ [][NextCreate]_vars

(***************************************************************************)
(* The pipeline with every task started with force=False (the default of   *)
(* the clustering and article group routes), under fair scheduling: a      *)
(* worker thread that can take a step of its task eventually takes one,    *)
(* and a message handed to task.send is sent.  Shutdown is the broker's    *)
(* signal and is under no fairness: it may never come.                     *)
(***************************************************************************)
\* The steps of worker w itself: taking a message and running the actor
WorkerStep(w) ==
    \/ \E m \in queue : Dequeue(w, m)
    \/ SaveStage(w)
    \/ Succeed(w)
    \/ Return(w)
    \/ Reserve(w)
    \/ Enter(w)
    \/ Create(w)
    \/ Sleep(w)
    \/ Write(w)
    \/ Cleanup(w)
    \/ FailJob(w)
    \/ Ack(w)

NextFair ==
    \/ \E actor \in Actors : StartTaskSave(actor, FALSE)
    \/ StartTaskSend
    \/ \E w \in Workers : WorkerStep(w)
    \/ \E w \in Workers : Shutdown(w)

SpecFair ==
    /\ Init
    /\ [][NextFair]_vars
    /\ WF_vars(StartTaskSend)
    /\ \A w \in Workers : WF_vars(WorkerStep(w))

(***************************************************************************)
(* Properties                                                              *)
(***************************************************************************)
\* Worker w is executing the creation function inside the scope for slot s
Creating(w, s) == wk[w].pc \in {"create", "sleep"} /\ CurSlot(w) = s

\* Worker w has run the pipeline of reserve_resource for slot s and not yet
\* branched on what it read
Entering(w, s) == wk[w].pc = "entering" /\ CurSlot(w) = s

\* C1 as stated: for every slot, whatever the force flags, at most one
\* worker is executing the creation function inside a granted scope.
C1_AnyForce ==
    \A s \in Slots : Cardinality({w \in Workers : Creating(w, s)}) <= 1

\* C1 amended: for every slot that no task was started with force=True on,
\* at most one worker is executing the creation function inside a granted
\* scope.
C1_MutualExclusion ==
    \A s \in Slots \ forced : Cardinality({w \in Workers : Creating(w, s)}) <= 1

\* One worker creates while another has just found the slot in progress
C1_Witness ==
    \E s \in Slots \ forced : \E w, v \in Workers :
        /\ w # v
        /\ Creating(w, s)
        /\ Entering(v, s)
        /\ wk[v].prev_val = Some(<<>>)

\* The holder of slot s, inside its scope and before its result is written
HoldsUnwritten(w, s) == wk[w].pc \in {"create", "sleep", "write"} /\ CurSlot(w) = s

\* Worker w has been granted slot s: it planted the marker or is in the scope
Granted(w, s) ==
    \/ InScope(w, s)
    \/ wk[w].pc = "cleanup" /\ CurSlot(w) = s
    \/ Entering(w, s) /\ wk[w].prev_val = None

RECURSIVE CompleteResults(_)
CompleteResults(params) ==
    CASE params.cls = "FilterSetParams" -> {_make_filter_set(db, params)}
      [] params.cls = "ClusteringParams" ->
           UNION {{o.result : o \in {x \in _make_clustering(params, fs) : x.ok}} :
                      fs \in CompleteResults(params.filter_set)}
      [] params.cls = "ArticleGroupParams" ->
           {_make_article_groups(params, c) : c \in CompleteResults(params.clustering)}

\* C3: a find_resource at any point raises ResourceDoesNotExist or
\* ResourceCreationInProgress or returns a complete result of the creation
\* function; and a slot only ever receives a result by the single write of a
\* worker whose creation function has returned, which then is past its write.
C3_NoPartialResult ==
    /\ [](\A p \in AllParams :
            LET r == find_resource(p)
            IN IF r.ok
               THEN r.result \in CompleteResults(p)
               ELSE r.exc \in {"ResourceDoesNotExist", "ResourceCreationInProgress"})
    /\ [][\A s \in Slots :
            (kv'[s] # kv[s] /\ kv'[s] # None /\ Len(kv'[s][1]) > 0)
            => \E w \in Workers :
                 /\ wk[w].pc = "write"
                 /\ CurSlot(w) = s
                 /\ wk[w].result # None
                 /\ kv'[s] = Some(Json(wk[w].result[1]))
                 /\ wk'[w].pc = "written"]_vars

\* A dependent polls (find_resource) a dependency that another worker has
\* just written
C3_Witness ==
    \E w, v \in Workers :
        /\ w # v
        /\ wk[w].pc = "written"
        /\ CurParams(w).cls = "FilterSetParams"
        /\ wk[w].result[1].article_ids # <<>>
        /\ wk[v].pc = "write"
        /\ CurParams(v).cls = "ClusteringParams"

UrlSlot(url) ==
    LET cls == CHOOSE c \in DOMAIN ResultPath : ResultPath[c] = url[1]
    IN <<get_resource_hash_key(cls).val, url[2]>>

\* C5: whenever the stored job of a task has status success, the entry its
\* result_url addresses holds a result.
C5_SuccessMeansReady ==
    \A j \in JobIds :
        (find_job(j).ok /\ find_job(j).job.status = "success")
        => LET v == kv[UrlSlot(find_job(j).job.result_url[1])]
           IN v # None /\ Len(v[1]) > 0

CreationExcTypes == {"ValueError", "ResourceDoesNotExist"}

\* The stored record of the job worker w works on
StoredJob(w) == find_job(wk[w].job[1].job_id).job

C7_RefusedUnchanged ==
    [][\A w \in Workers :
         /\ (wk[w].pc = "reserve" /\ wk'[w].pc = "entering" /\ kv[CurSlot(w)] # None)
            => kv' = kv /\ wk'[w].prev_val = kv[CurSlot(w)]
         /\ (/\ wk[w].pc = "entering"
             /\ wk'[w].pc \in {"create", "stage"}
             /\ ~wk[w].force
             /\ wk[w].prev_val # None)
            => /\ kv' = kv
               /\ wk'[w].pc = "stage"
               /\ wk'[w].raised = IF Len(wk[w].prev_val[1]) = 0
                                  THEN Some("ResourceCreationInProgress")
                                  ELSE Some("ResourceExists")]_vars

\* A non-forced reservation of a slot that holds a result was refused
C7_Witness ==
    \E w \in Workers :
        /\ wk[w].pc = "stage"
        /\ ~wk[w].force
        /\ wk[w].raised = Some("ResourceExists")

\* C8: a forced reserve_resource is granted whatever it read, raises nothing,
\* and the slot holds the sentinel when the body starts.
C8_ForceGranted ==
    [][\A w \in Workers :
         (wk[w].pc = "entering" /\ wk'[w].pc \in {"create", "stage"} /\ wk[w].force)
         => /\ wk'[w].pc = "create"
            /\ wk'[w].raised = None
            /\ kv'[CurSlot(w)] = Some(<<>>)]_vars

\* A forced reservation was granted over a result
C8_Witness ==
    \E w \in Workers :
        /\ wk[w].pc = "create"
        /\ wk[w].force
        /\ wk[w].prev_val # None
        /\ Len(wk[w].prev_val[1]) > 0

\* C9: find_resource raises ResourceDoesNotExist for an absent entry,
\* ResourceCreationInProgress for a zero-length one, and returns the parsed
\* value of any other; and the serialized result a worker is about to store
\* is never zero-length.
C9_Classification ==
    /\ \A p \in AllParams :
         LET v == kv[Slot(p)]
             r == find_resource(p)
         IN /\ v = None => (~r.ok /\ r.exc = "ResourceDoesNotExist")
            /\ (v # None /\ Len(v[1]) = 0) =>
                   (~r.ok /\ r.exc = "ResourceCreationInProgress")
            /\ (v # None /\ Len(v[1]) > 0) =>
                   (r.ok /\ r.result.cls = RESOURCE_RESULT_CLASSES[p.cls])
    /\ \A w \in Workers :
         wk[w].pc = "write" => Len(Json(wk[w].result[1])) > 0

\* The three kinds of entry at once: a result, the sentinel, nothing
C9_Witness ==
    /\ kv[Slot(TheFilterSet)] # None
    /\ Len(kv[Slot(TheFilterSet)][1]) > 0
    /\ kv[Slot(TheClustering)] = Some(<<>>)
    /\ kv[Slot(TheArticleGroup)] = None

\* C10: when a non-forced make_resource that found the entry absent has
\* written (and is about to return), find_resource returns the value its
\* creation function produced.
C10_RoundTrip ==
    \A w \in Workers :
        (wk[w].pc = "written" /\ CurSlot(w) \notin forced)
        => find_resource(CurParams(w)) = [ok |-> TRUE, result |-> wk[w].result[1]]

\* make_resource has created a clustering of a non-empty filter set
C10_Witness ==
    \E w \in Workers :
        /\ wk[w].pc = "written"
        /\ CurSlot(w) \notin forced
        /\ CurParams(w).cls = "ClusteringParams"
        /\ wk[w].result[1].article_ids # <<>>

\* Worker w runs the pipeline of reserve_resource
ReserveStep(w) == wk[w].pc = "reserve" /\ wk'[w].pc = "entering"

\* C11: a non-forced make_resource on an entry that holds a result is a
\* no-op: the store is not written, the creation function is not entered,
\* ResourceExists is absorbed and the caller goes on to its next statement
\* with no exception.
C11_ExistsNoOp ==
    [][\A w \in Workers :
         ~wk[w].force =>
           /\ (ReserveStep(w) /\ kv[CurSlot(w)] # None /\ Len(kv[CurSlot(w)][1]) > 0)
              => kv' = kv
           /\ (/\ wk[w].pc = "entering"
               /\ wk'[w] # wk[w]
               /\ wk[w].prev_val # None
               /\ Len(wk[w].prev_val[1]) > 0
               /\ wk'[w].exc # Some(ShutdownExc))
              => /\ kv' = kv
                 /\ wk'[w].pc = "stage"
                 /\ wk'[w].stage = wk[w].stage + 1
                 /\ wk'[w].exc = None
                 /\ wk'[w].result = None
                 /\ wk'[w].raised = Some("ResourceExists")]_vars

\* The slot of the make_resource call worker w has just returned from
PrevSlot(w) == Slot(Stages(wk[w].actor, wk[w].params[1])[wk[w].stage - 1].params)

\* A second make_resource returned from an entry that still holds the result
C11_Witness ==
    \E w \in Workers :
        /\ wk[w].pc = "stage"
        /\ ~wk[w].force
        /\ wk[w].raised = Some("ResourceExists")
        /\ kv[PrevSlot(w)] # None
        /\ Len(kv[PrevSlot(w)][1]) > 0

\* C12: a non-forced make_resource on an entry that holds the in-progress
\* sentinel returns without raising, does not enter the creation function
\* and writes nothing: the entry is the sentinel after the pipeline as
\* before.
C12_InProgressNoOp ==
    [][\A w \in Workers :
         ~wk[w].force =>
           /\ (ReserveStep(w) /\ kv[CurSlot(w)] = Some(IN_PROGRESS_VAL))
              => kv' = kv /\ kv'[CurSlot(w)] = Some(IN_PROGRESS_VAL)
           /\ (/\ wk[w].pc = "entering"
               /\ wk'[w] # wk[w]
               /\ wk[w].prev_val = Some(IN_PROGRESS_VAL)
               /\ wk'[w].exc # Some(ShutdownExc))
              => /\ kv' = kv
                 /\ wk'[w].pc = "stage"
                 /\ wk'[w].stage = wk[w].stage + 1
                 /\ wk'[w].exc = None
                 /\ wk'[w].result = None
                 /\ wk'[w].raised = Some("ResourceCreationInProgress")]_vars

\* make_resource returned while another worker still holds the reservation
C12_Witness ==
    \E w \in Workers :
        /\ wk[w].pc = "stage"
        /\ ~wk[w].force
        /\ wk[w].raised = Some("ResourceCreationInProgress")
        /\ kv[PrevSlot(w)] = Some(IN_PROGRESS_VAL)

\* C13: every job record in the store with status success has a result_url,
\* and so passes the validator when it is read back.
C13_SuccessHasUrl ==
    \A j \in JobIds :
        jobs[j] # None =>
            /\ (JobFields(jobs[j][1]).status = "success"
                => JobFields(jobs[j][1]).result_url # None)
            /\ find_job(j).ok

\* A task has stored its job as success with the url of its result
C13_Witness ==
    \E j \in JobIds :
        /\ jobs[j] # None
        /\ JobFields(jobs[j][1]).status = "success"
        /\ JobFields(jobs[j][1]).result_url = Some(ResultUrl(TheArticleGroup))

\* C14: once the stored status of a job is success or failed, no step
\* changes the stored record.
C14_TerminalStable ==
    [][\A j \in JobIds :
         (jobs[j] # None /\ JobFields(jobs[j][1]).status \in {"success", "failed"})
         => jobs'[j] = jobs[j]]_vars

\* The job ids start_task has handed out: to the route, the queue, a worker
Issued ==
    {api[i].job.job_id : i \in DOMAIN api}
    \cup {m.job.job_id : m \in queue}
    \cup {wk[w].job[1].job_id : w \in {v \in Workers : wk[v].job # None}}

\* C15: the job of a task is stored before its message is sent: GET on the
\* job of every id handed out answers 200, from before the enqueue on and
\* whatever the worker has done; and a stored job is never removed.
C15_JobExists ==
    /\ [](\A j \in Issued : get_job(j).status = 200)
    /\ [][\A j \in JobIds : jobs[j] # None => jobs'[j] # None]_vars

\* The POST has returned and no worker has taken the message yet
C15_Witness ==
    \E m \in queue :
        /\ api = None
        /\ get_job(m.job.job_id).status = 200
        /\ get_job(m.job.job_id).body[1].status = "in progress"
        /\ get_job(m.job.job_id).body[1].status_detail = Some("Starting")

\* The response a GET route owes to the value of the entry it addresses
Answers(resp, val, result_cls) ==
    /\ val = None => resp = [status |-> 404, body |-> None]
    /\ (val # None /\ Len(val[1]) = 0) => resp = [status |-> 409, body |-> None]
    /\ (val # None /\ Len(val[1]) > 0) =>
           resp = [status |-> 200, body |-> Some(parse_raw(result_cls, val[1]))]

\* C16: each GET route by params hash answers 200 with the stored result
\* for a ready entry, 404 for an absent one and 409 for one in progress.
C16_GetStatus ==
    \A h \in Hashes :
        /\ Answers(get_filter_set(h), kv[<<"filter_sets", h>>], "FilterSetResult")
        /\ Answers(get_clustering(h), kv[<<"clusterings", h>>], "ClusteringResult")
        /\ Answers(get_article_group(h), kv[<<"article_groups", h>>], "ArticleGroupResult")

\* A filter set and its clustering are ready and the article group is in
\* progress
C16_Witness ==
    /\ get_filter_set(Hash(TheFilterSet)).status = 200
    /\ get_filter_set(Hash(TheFilterSet)).body[1].article_ids # <<>>
    /\ get_clustering(Hash(TheClustering)).status = 200
    /\ get_article_group(Hash(TheArticleGroup)).status = 409
    /\ get_article_group(Hash(TheClustering)).status = 404

\* Worker w polls its dependency with find_resource
PollStep(w) ==
    /\ wk[w].pc = "create"
    /\ CurParams(w).cls # "FilterSetParams"
    /\ wk'[w].pc \in {"sleep", "write", "cleanup"}
    /\ wk'[w].exc # Some(ShutdownExc)

\* C17: the find_resource of a polling creation function leaves every cache
\* entry as it was, whether it returns or raises.
C17_FindReadOnly ==
    [][\A w \in Workers : PollStep(w) => kv' = kv]_vars

\* A poll has found the sentinel of its dependency, which is still there
C17_Witness ==
    \E w \in Workers :
        /\ wk[w].pc = "sleep"
        /\ kv[Slot(Dependency(CurParams(w)))] = Some(IN_PROGRESS_VAL)

\* The ids that have a record in the job tracker
Stored == {j \in JobIds : jobs[j] # None}

\* C18: save_job of a JobCreate stores one record under an id that had
\* none; save_job of a Job replaces the record under its id and adds none;
\* find_job then returns the job saved; find_job of an id never saved raises
\* ResourceDoesNotExist.
C18_Upsert ==
    /\ [](\A j \in JobIds \ Stored :
            find_job(j) = [ok |-> FALSE, exc |-> "ResourceDoesNotExist"])
    /\ [][/\ Stored \subseteq Stored'
          /\ (api = None /\ api' # None) =>
                LET job == api'[1].job
                IN /\ job.job_id \notin Stored
                   /\ Stored' = Stored \cup {job.job_id}
                   /\ \A j \in Stored : jobs'[j] = jobs[j]
                   /\ Job_parse_raw(jobs'[job.job_id][1]) = [ok |-> TRUE, job |-> job]
          /\ \A w \in Workers :
                (wk[w].job # None /\ wk'[w].job # None /\ wk'[w].job # wk[w].job) =>
                   LET job == wk'[w].job[1]
                   IN /\ job.job_id = wk[w].job[1].job_id
                      /\ Stored' = Stored
                      /\ \A j \in Stored \ {job.job_id} : jobs'[j] = jobs[j]
                      /\ Job_parse_raw(jobs'[job.job_id][1]) = [ok |-> TRUE, job |-> job]]_vars

\* A job saved at start_task has been saved again under the same id
C18_Witness ==
    \E w \in Workers :
        /\ wk[w].job # None
        /\ wk[w].job[1].status_detail = Some("Clustering")
        /\ find_job(wk[w].job[1].job_id) = [ok |-> TRUE, job |-> wk[w].job[1]]
        /\ Stored = {wk[w].job[1].job_id}

\* C19 (SpecCalls): find_resource, reserve_resource and make_resource called
\* with parameters of a class that is in no registry raise TypeError, and a
\* call that raises TypeError has issued no Redis command and leaves the
\* cache as it was.
C19_UnregisteredTypeError ==
    [][call' # call =>
         /\ call'[1].cls \notin DOMAIN RESOURCE_HASH_KEYS
            => call'[1].raised = Some("TypeError")
         /\ call'[1].raised = Some("TypeError")
            => call'[1].cmds = <<>> /\ kv' = kv]_vars

\* make_resource has raised TypeError on a cache that holds a result and a
\* marker
C19_Witness ==
    /\ call # None
    /\ call[1].fn = "make_resource"
    /\ call[1].cls = "HashableBaseModel"
    /\ call[1].raised = Some("TypeError")
    /\ kv[Slot(TheFilterSet)] # None
    /\ Len(kv[Slot(TheFilterSet)][1]) > 0
    /\ kv[Slot(TheClustering)] = Some(IN_PROGRESS_VAL)

RECURSIVE Restored(_, _)
Restored(m, d) ==
    /\ d.actor_name = m.actor_name
    /\ Len(d.args) = Len(m.args)
    /\ \A i \in DOMAIN m.args :
         /\ d.args[i] = m.args[i]
         /\ IsModel(m.args[i]) =>
              /\ IsModel(d.args[i])
              /\ m.args[i].cls # "Job" => Hash(d.args[i]) = Hash(m.args[i])
    /\ Len(d.kwargs) = Len(m.kwargs)
    /\ \A i \in DOMAIN m.kwargs :
         /\ d.kwargs[i] = m.kwargs[i]
         /\ IsModel(m.kwargs[i][2]) =>
              /\ IsModel(d.kwargs[i][2])
              /\ m.kwargs[i][2].cls # "Job"
                 => Hash(d.kwargs[i][2]) = Hash(m.kwargs[i][2])
    /\ (d.options.pipe_target = None) = (m.options.pipe_target = None)
    /\ m.options.pipe_target # None
       => Restored(m.options.pipe_target[1], d.options.pipe_target[1])

C22_BlankClustering ==
    (/\ call[1].fn = "_make_clustering"
     /\ call[1].out # None
     /\ ClusteredIds(call[1].params, call[1].found.article_ids) = <<>>)
    => /\ call[1].out[1].ok
       /\ LET r == call[1].out[1].result
          IN /\ r.article_ids = <<>> /\ r.labels = <<>> /\ r.coords = <<>>
             /\ r.num_clusters = 0
             /\ r.metrics = [dbcv |-> None, silhoutte_coefficient |-> None,
                             davies_bouldin_index |-> None, dunn_index |-> None]
             /\ r.label_info.n_per_cluster = <<>>
             /\ r.label_info.cluster_validity_indices = <<>>
             /\ r.label_info.cluster_center_coords = <<>>
             /\ [article_ids |-> r.article_ids, labels |-> r.labels,
                 num_clusters |-> r.num_clusters, cls |-> r.cls]
                = _make_blank_clustering_result

\* An empty filter set was clustered with min_cluster_size 2 while HDBSCAN
\* would have raised
C22_Witness ==
    /\ call[1].fn = "_make_clustering"
    /\ call[1].out # None
    /\ call[1].found.article_ids = <<>>
    /\ call[1].params.filter_set.temp_article_ids = Some(<<>>)
    /\ call[1].numeric.hdbscan_min_cluster_size = 2
    /\ call[1].ext.raises = "HDBSCAN"
    /\ call[1].out[1].ok

\* C23 (SpecCreate): every result _make_clustering returns has as many
\* labels and coords as article_ids, and its num_clusters is the greatest
\* non-null label plus one, or 0 when every label is null.
C23_ClusteringShape ==
    (call[1].fn = "_make_clustering" /\ call[1].out # None /\ call[1].out[1].ok)
    => LET r == call[1].out[1].result
           nonnull == {r.labels[i][1] : i \in {k \in DOMAIN r.labels : r.labels[k] # None}}
       IN /\ Len(r.article_ids) = Len(r.labels)
          /\ Len(r.labels) = Len(r.coords)
          /\ r.num_clusters = IF nonnull = {} THEN 0
                              ELSE (CHOOSE m \in nonnull : \A x \in nonnull : x <= m) + 1

\* A clustering of three articles with an outlier and two clusters was
\* returned
C23_Witness ==
    /\ call[1].fn = "_make_clustering"
    /\ call[1].out # None
    /\ call[1].out[1].ok
    /\ Len(call[1].out[1].result.article_ids) = MaxPoints + 1
    /\ \E i \in DOMAIN call[1].out[1].result.labels : call[1].out[1].result.labels[i] = None
    /\ call[1].out[1].result.num_clusters = 2

\* C24 (SpecCreate): for a clustering result that is not empty,
\* _make_article_groups with num_terms = 0 returns one group for every
\* cluster, each with article_ids and with no top_terms, whatever terms the
\* articles carry.
C24_NoTermsRequested ==
    (/\ call[1].fn = "_make_article_groups"
     /\ call[1].out # None
     /\ call[1].params.num_terms = 0
     /\ call[1].found.article_ids # <<>>)
    => LET groups == call[1].out[1].result
           clusters == {call[1].found.labels[i][1] :
                           i \in {k \in DOMAIN call[1].found.labels :
                                     call[1].found.labels[k] # None}}
       IN /\ {groups[k].id : k \in DOMAIN groups} = clusters
          /\ \A k \in DOMAIN groups :
                /\ groups[k].article_ids # <<>>
                /\ groups[k].top_terms = <<>>

\* The value of an entry that holds a result
Ready(val) == val # None /\ Len(val[1]) > 0

\* C25: an entry no task was started with force=True on only ever changes
\* from absent to in progress, from in progress to ready, or from in progress
\* to absent; a ready entry is never overwritten, reverted or removed.
C25_EntryTransitions ==
    [][\A s \in Slots \ forced :
         kv'[s] # kv[s] =>
            \/ kv[s] = None /\ kv'[s] = Some(IN_PROGRESS_VAL)
            \/ kv[s] = Some(IN_PROGRESS_VAL) /\ Ready(kv'[s])
            \/ kv[s] = Some(IN_PROGRESS_VAL) /\ kv'[s] = None]_vars

\* C26: the make_resource calls of a task are in the order of dependency,
\* filter set, then clustering, then article group, the last for the
\* parameters of the task; a call starts only when the one before it has
\* returned (refused, or past its write); and when the pipeline of
\* reserve_resource has run the entry is no longer absent, so a creation
\* function starts only after the reservation of its dependency.
C26_DependencyFirst ==
    /\ [](\A w \in Workers :
            wk[w].actor \in Actors =>
               LET st == Stages(wk[w].actor, wk[w].params[1])
               IN /\ st[1].params.cls = "FilterSetParams"
                  /\ st[Len(st)].params = wk[w].params[1]
                  /\ \A k \in 2..Len(st) :
                        /\ st[k].params.cls # "FilterSetParams"
                        /\ st[k - 1].params = Dependency(st[k].params)
                  /\ wk[w].stage \in 1..(Len(st) + 1))
    /\ [][\A w \in Workers :
            /\ (wk[w].pc = "idle" /\ wk'[w].pc # "idle") => wk'[w].stage = 1
            /\ (wk[w].actor \in Actors /\ wk'[w].actor \in Actors
                /\ wk'[w].stage # wk[w].stage)
               => /\ wk'[w].stage = wk[w].stage + 1
                  /\ wk[w].pc \in {"entering", "written"}
                  /\ wk[w].pc = "entering" => wk[w].prev_val # None
            /\ ReserveStep(w) => kv'[CurSlot(w)] # None
            /\ (wk'[w].pc = "create" /\ wk[w].pc \notin {"create", "sleep"})
               => wk[w].pc = "entering" /\ wk'[w].stage = wk[w].stage]_vars

\* The creation function of an article group runs in a task that found its
\* filter set ready and its clustering in progress
C26_Witness ==
    \E w \in Workers :
        /\ wk[w].pc = "create"
        /\ ~wk[w].force
        /\ wk[w].stage = 3
        /\ CurParams(w) = TheArticleGroup
        /\ kv[Slot(TheClustering)] = Some(IN_PROGRESS_VAL)
        /\ Ready(kv[Slot(TheFilterSet)])

\* The stored record of job j has a terminal status
Terminal(j) ==
    /\ find_job(j).ok
    /\ find_job(j).job.status \in {"success", "failed"}

\* C27: under fair scheduling, with every task started with force=False and
\* every worker that stops running its exception handlers, each job that
\* start_task has stored is eventually stored with the status success or
\* failed
C27_Terminates == \A j \in JobIds : (jobs[j] # None) ~> Terminal(j)

\* Worker w is in the polling loop of a creation function, in a scope it
\* was granted without force on an entry no task forces
Polling(w) ==
    /\ wk[w].pc \in {"create", "sleep"}
    /\ CurParams(w).cls # "FilterSetParams"
    /\ CurSlot(w) \notin forced

\* The entry of the dependency worker w polls
DepSlot(w) == Slot(Dependency(CurParams(w)))

\* The step raises Shutdown in the thread of worker w
ShutdownStep(w) == wk[w].exc = None /\ wk'[w].exc = Some(ShutdownExc)

\* What a step leaves of a polling worker: it is still in the same call of
\* the creation function, which has neither returned nor raised, its job
\* record is as it was and its own entry still holds the sentinel
StillPolling(w) ==
    /\ wk'[w].pc \in {"create", "sleep"}
    /\ wk'[w].stage = wk[w].stage
    /\ wk'[w].params = wk[w].params
    /\ wk'[w].result = None
    /\ wk'[w].exc = None
    /\ jobs'[wk[w].job[1].job_id] = jobs[wk[w].job[1].job_id]
    /\ ~Terminal(wk[w].job[1].job_id)
    /\ kv'[CurSlot(w)] = Some(IN_PROGRESS_VAL)

\* C28 as stated: while the entry of its dependency holds the sentinel, a
\* polling creation function neither returns nor raises, whatever happens: the job of
\* its task stays non-terminal and its own marker stays
C28_StallsWhateverHappens ==
    [][\A w \in Workers :
         (/\ Polling(w)
          /\ kv[DepSlot(w)] = Some(IN_PROGRESS_VAL)
          /\ kv'[DepSlot(w)] = Some(IN_PROGRESS_VAL))
         => StillPolling(w)]_vars

\* C28 amended: while the entry of its dependency holds the sentinel and no
\* Shutdown is raised in its own thread, a polling creation function neither
\* returns nor raises: the job of its task stays non-terminal and its own
\* marker stays
C28_StallsUntilShutdown ==
    [][\A w \in Workers :
         (/\ Polling(w)
          /\ kv[DepSlot(w)] = Some(IN_PROGRESS_VAL)
          /\ kv'[DepSlot(w)] = Some(IN_PROGRESS_VAL)
          /\ ~ShutdownStep(w))
         => StillPolling(w)]_vars

\* A worker has polled and sleeps on a dependency whose marker no worker holds
C28_Witness ==
    \E w \in Workers :
       /\ Polling(w)
       /\ wk[w].pc = "sleep"
       /\ kv[DepSlot(w)] = Some(IN_PROGRESS_VAL)
       /\ \A v \in Workers :
            wk[v].pc \in ScopePcs \cup {"reserve", "entering", "cleanup"}
               => CurSlot(v) # DepSlot(w)

\* The exception worker w carries is ResourceDoesNotExist
RaisedDoesNotExist(w) ==
    wk[w].exc # None /\ wk[w].exc[1].type = "ResourceDoesNotExist"

C30_CleanupOwnMarker ==
    \A w \in Workers :
       (wk[w].pc = "cleanup" /\ CurSlot(w) \notin forced)
          => /\ kv[CurSlot(w)] = Some(IN_PROGRESS_VAL)
             /\ \A v \in Workers \ {w} : ~Granted(v, CurSlot(w))

\* C31: with every task started with force=False, an entry that holds the
\* in-progress sentinel has exactly one worker that was granted it and has
\* not left its reservation: no marker is orphaned
C31_NoOrphanedMarker ==
    \A s \in Slots :
       kv[s] = Some(IN_PROGRESS_VAL)
          => Cardinality({w \in Workers : Granted(w, s)}) = 1

\* C32: a call make_resource(params, force=True) that found a ready result in
\* the entry and whose creation function raised leaves the entry absent: the
\* result that was cached is not put back
C32_ForcedFailureLeavesAbsent ==
    [][\A params \in AllParams :
         (/\ call' # None
          /\ call'[1].fn = "make_resource"
          /\ call'[1].cls = params.cls
          /\ call'[1].force
          /\ Ready(call'[1].prev_val)
          /\ call'[1].raised # None)
         => /\ Ready(kv[Slot(params)])
            /\ kv'[Slot(params)] = None
            /\ call'[1].cmds = <<"HGET", "HSETNX", "HSET", "HDEL">>]_vars

\* A forced make_resource on a ready clustering has failed and the entry is
\* absent
C32_Witness ==
    /\ call # None
    /\ call[1].fn = "make_resource"
    /\ call[1].cls = "ClusteringParams"
    /\ call[1].force
    /\ Ready(call[1].prev_val)
    /\ call[1].raised # None
    /\ kv[Slot(TheClustering)] = None

\* C33: a call of make_resource(params) changes no entry of the cache but the
\* one under the hash key of the class of params and hash(params): the
\* entries of other hashes and kinds, the dependency it reads among them, the
\* job records and the relational store are as they were
C33_WritesOwnSlotOnly ==
    [][(call' # None /\ call'[1].fn = "make_resource")
         => /\ \A params \in CallParams :
                 call'[1].cls = params.cls
                    => \A s \in AllSlots :
                          (params = Unregistered \/ s # Slot(params)) => kv'[s] = kv[s]
            /\ jobs' = jobs
            /\ db' = db]_vars

\* make_resource has created a clustering from the filter set it read, which
\* is still in the cache
C33_Witness ==
    /\ call # None
    /\ call[1].fn = "make_resource"
    /\ call[1].cls = "ClusteringParams"
    /\ call[1].raised = None
    /\ call[1].cmds = <<"HGET", "HSETNX", "HSET">>
    /\ Ready(kv[Slot(TheClustering)])
    /\ Ready(kv[Slot(TheFilterSet)])
    /\ kv[Slot(TheArticleGroup)] = Some(IN_PROGRESS_VAL)

\* The call of _make_clustering has returned a result
ClusteringReturned ==
    call[1].fn = "_make_clustering" /\ call[1].out # None /\ call[1].out[1].ok

\* The values of a sequence
Range(seq) == {seq[i] : i \in DOMAIN seq}

\* C34 as stated: in every clustering result n_per_cluster,
\* cluster_center_coords and cluster_validity_indices have the same length,
\* the number of distinct non-null labels
C34_ArraysPerCluster ==
    ClusteringReturned =>
       LET r == call[1].out[1].result
           info == r.label_info
       IN /\ Len(info.n_per_cluster) = Len(info.cluster_center_coords)
          /\ Len(info.n_per_cluster) = Len(info.cluster_validity_indices)
          /\ Len(info.n_per_cluster) = Cardinality(Range(r.labels) \ {None})

\* C34 amended: in every clustering result n_per_cluster,
\* cluster_center_coords and cluster_validity_indices have the same length,
\* the number of distinct labels with the outliers (null) counted as one
\* more label: the points without a cluster have an entry of their own
C34_ArraysPerLabel ==
    ClusteringReturned =>
       LET r == call[1].out[1].result
           info == r.label_info
       IN /\ Len(info.n_per_cluster) = Len(info.cluster_center_coords)
          /\ Len(info.n_per_cluster) = Len(info.cluster_validity_indices)
          /\ Len(info.n_per_cluster) = Cardinality(Range(r.labels))

\* A result with an outlier and a cluster: two entries in each array
C34_Witness ==
    /\ ClusteringReturned
    /\ None \in Range(call[1].out[1].result.labels)
    /\ Some(0) \in Range(call[1].out[1].result.labels)
    /\ Len(call[1].out[1].result.label_info.n_per_cluster) = 2
    /\ Len(call[1].out[1].result.label_info.cluster_validity_indices) = 2

\* C35: with hdbscan_min_cluster_size <= 2 or hdbscan_min_samples <= 2, some
\* article to cluster, and no failure of UMAP, HDBSCAN or a score, a call of
\* _make_clustering that found a cluster returns a result, and its dbcv is
\* null
C35_SkippedMetric ==
    (/\ call[1].fn = "_make_clustering"
     /\ call[1].out # None
     /\ \/ call[1].numeric.hdbscan_min_cluster_size <= 2
        \/ call[1].numeric.hdbscan_min_samples <= 2
     /\ \E i \in DOMAIN ClusteredIds(call[1].params, call[1].found.article_ids) :
           ClusteredIds(call[1].params, call[1].found.article_ids)[i]
              \in call[1].ext.embedded
     /\ call[1].ext.raw_labels[1] = 0
     /\ call[1].ext.raises = "")
    => /\ call[1].out[1].ok
       /\ call[1].out[1].result.metrics.dbcv = None

\* The position of term t in the ranking by distance to the centroid
RankOf(ranking, t) == CHOOSE i \in DOMAIN ranking : ranking[i] = t

\* The candidate terms of a group: those more than one of its articles carries
CandidatesOf(group, summary_terms) ==
    {t \in Terms :
        Cardinality({a \in Range(group.article_ids) : t \in summary_terms[a]}) > 1}

\* C36: in every group _make_article_groups returns, top_terms holds only
\* terms carried by more than one article of the cluster, in the order of
\* their distance to the centroid, and as many as min(num_terms, number of
\* such terms)
C36_TopTerms ==
    (call[1].fn = "_make_article_groups" /\ call[1].out # None)
    => LET groups == call[1].out[1].result
           num_terms == call[1].params.num_terms
       IN \A k \in DOMAIN groups :
            LET top == groups[k].top_terms
                cands == CandidatesOf(groups[k], call[1].summary_terms)
            IN /\ Range(top) \subseteq cands
               /\ \A i, j \in DOMAIN top :
                     i < j => RankOf(call[1].ranking, top[i]) < RankOf(call[1].ranking, top[j])
               /\ Len(top) = IF num_terms < Cardinality(cands)
                             THEN num_terms ELSE Cardinality(cands)

\* C37: the result _make_filter_set returns, which make_resource stores, holds
\* the ids of the articles matching the query together with the ids of
\* temp_article_ids, and no more than limit ids when there is a limit
C37_FilterSetContents ==
    (call[1].fn = "_make_filter_set" /\ call[1].out # None)
    => LET params == call[1].params
           ids == Range(call[1].out[1].article_ids)
           matching == Range(call[1].d[params.full_text_search_query])
           included == IF params.temp_article_ids = None THEN {}
                       ELSE Range(params.temp_article_ids[1])
       IN /\ ids \subseteq matching \cup included
          /\ params.limit = None => ids = matching \cup included
          /\ params.limit # None => Len(call[1].out[1].article_ids) <= params.limit[1]

\* The status_detail values make_article_group reports, in order
ArticleGroupDetails ==
    <<"Starting", "Creating filter set", "Clustering",
      "Generating article group summaries">>

\* Job j is the job of a make_article_group task: a worker runs that actor
\* with it, or its stored record has the result_url of the article group
ArticleGroupJob(j) ==
    \/ \E w \in Workers :
          /\ wk[w].job # None
          /\ wk[w].job[1].job_id = j
          /\ wk[w].actor = "make_article_group"
    \/ /\ jobs[j] # None
       /\ JobFields(jobs[j][1]).result_url = Some(ResultUrl(TheArticleGroup))

\* C38: the record of a make_article_group job only changes from one
\* in-progress status_detail to the next of "Starting", "Creating filter
\* set", "Clustering", "Generating article group summaries", or from an
\* in-progress record to a terminal one (success with null detail, failed
\* with a message); a terminal record is the last one stored
C38_StatusSequence ==
    [][\A j \in JobIds :
         (ArticleGroupJob(j) /\ jobs[j] # None /\ jobs'[j] # jobs[j])
         => LET old == JobFields(jobs[j][1])
                new == JobFields(jobs'[j][1])
            IN /\ jobs'[j] # None
               /\ old.status = "in progress"
               /\ \/ /\ new.status = "in progress"
                     /\ \E k \in 1..(Len(ArticleGroupDetails) - 1) :
                           /\ old.status_detail = Some(ArticleGroupDetails[k])
                           /\ new.status_detail = Some(ArticleGroupDetails[k + 1])
                  \/ new.status = "success" /\ new.status_detail = None
                  \/ new.status = "failed" /\ new.status_detail # None]_vars

====
